---- MODULE Spec2Model ----
(***************************************************************************)
(* Model of the BuiltWith technology-record extractor                      *)
(* (src/builtwith_excel.py): extract_technology_data,                      *)
(* _extract_from_result, _create_tech_row, parse_timestamp and             *)
(* format_timestamp, together with the Python run-time behaviour they rest *)
(* on (truthiness, `in`, iteration, dict.get, int(), str(),                *)
(* datetime.strptime/strftime); of the spreadsheet writers; and of the     *)
(* four entry points (src/main.py, src/builtwith_excel.py,                 *)
(* src/builtwith_ollama.py, src/builtwith_client.py) with the profiling    *)
(* API, the chat service and the file system as their environment.         *)
(*                                                                         *)
(* Decoded JSON values are tagged records; text is a TLA+ string; a        *)
(* mapping is the sequence of its <<key, value>> pairs in document order.  *)
(* A call either returns (Ok) or raises (Raise).                           *)
(***************************************************************************)
EXTENDS Integers, Sequences, FiniteSets, TLC

VARIABLES
    pc,                \* position of the run under way
    builtwith_data,    \* the decoded document given to extract_technology_data
    technology_data,   \* what extract_technology_data returned or raised
    tech,              \* _create_tech_row: the technology entry
    category_override, \* _create_tech_row: the category override (None or text)
    row,               \* what _create_tech_row returned or raised
    timestamp_str,     \* parse_timestamp: its argument
    formatted,         \* format_timestamp(parse_timestamp(timestamp_str))
    reformatted,       \* format_timestamp(parse_timestamp(formatted))
    zero_pad_year,     \* whether strftime writes a year below 1000 with leading zeros
    techs,             \* one list of technology entries placed in the three shapes
    category_name,     \* the category key used for the 'Categories' shape
    shape_rows,        \* shape name -> what extract_technology_data gave for it
    entry,             \* the entry point invoked
    args,              \* its parsed command-line arguments
    BUILTWITH_API_KEY, \* config.py: the key found in the environment, or None
    llm_analysis,      \* the analysis text the exporter is given, or None
    full_response,     \* analyze_with_ollama: the text accumulated while streaming
    chunks,            \* the chunks of the streamed reply that have not arrived yet
    workbook,          \* the sheets of the spreadsheet written, <<>> when none is
    trace,             \* the outbound requests and file accesses made, in order
    report,            \* the lines printed, in order
    exit_status        \* the exit status of the process, None while it runs

\* the variables of each run
extractVars == <<builtwith_data, technology_data>>
rowVars == <<tech, category_override, row>>
timestampVars == <<timestamp_str, formatted, reformatted>>
shapeVars == <<techs, category_name, shape_rows>>
runVars ==
    <<entry, args, BUILTWITH_API_KEY, llm_analysis, full_response, chunks, workbook, trace,
      report, exit_status>>

vars == <<pc, zero_pad_year, extractVars, rowVars, timestampVars, shapeVars, runVars>>

----------------------------------------------------------------------------
(* Decoded JSON values (json.load) and Python's None.                      *)

JNull == [t |-> "null"]
JBool(b) == [t |-> "bool", b |-> b]
JInt(n) == [t |-> "int", n |-> n]
\* a non-negative float with one decimal digit: w + f/10
JFloat(w, f) == [t |-> "float", w |-> w, f |-> f]
JStr(s) == [t |-> "str", s |-> s]
JList(l) == [t |-> "list", l |-> l]
JDict(d) == [t |-> "dict", d |-> d]

\* outcome of a call: a returned value, or a raised exception
Ok(v) == [ok |-> TRUE, val |-> v]
Raise(e) == [ok |-> FALSE, exc |-> e]
\* no call made yet
NotRun == [ok |-> FALSE, exc |-> "not-run"]

\* the rest of a computation on the value a call returned; an exception it
\* raised propagates
Then(r, Rest(_)) == IF r.ok THEN Rest(r.val) ELSE r

----------------------------------------------------------------------------
(* Python run-time behaviour used by the extractor.                        *)

\* bool(v): None, False, 0, 0.0, '', [] and {} are falsy
Truthy(v) ==
    CASE v.t = "null" -> FALSE
      [] v.t = "bool" -> v.b
      [] v.t = "int" -> v.n # 0
      [] v.t = "float" -> ~(v.w = 0 /\ v.f = 0)
      [] v.t = "str" -> v.s # ""
      [] v.t = "list" -> v.l # <<>>
      [] v.t = "dict" -> v.d # <<>>

\* key in mapping
HasKey(v, k) == \E i \in DOMAIN v.d : v.d[i][1] = k

\* mapping[key], for a key that is present
Lookup(v, k) == v.d[CHOOSE i \in DOMAIN v.d : v.d[i][1] = k][2]

\* mapping.get(key, default)
DictGet(v, k, default) == IF HasKey(v, k) THEN Lookup(v, k) ELSE default

\* needle in text: substring test
IsSubstring(needle, s) ==
    \E i \in 1..(Len(s) - Len(needle) + 1) : SubSeq(s, i, i + Len(needle) - 1) = needle

\* `k in v` for a text k: key test on a mapping, element test on a list,
\* substring test on a text, TypeError on None, a bool or a number
PyIn(k, v) ==
    CASE v.t = "dict" -> Ok(HasKey(v, k))
      [] v.t = "list" -> Ok(\E i \in DOMAIN v.l : v.l[i] = JStr(k))
      [] v.t = "str" -> Ok(IsSubstring(k, v.s))
      [] OTHER -> Raise("TypeError")

\* v[k] for a text k, evaluated only after `k in v` was true
PySubscript(v, k) ==
    IF v.t = "dict" THEN Ok(Lookup(v, k)) ELSE Raise("TypeError")

\* `for x in v`: the elements of a list, the keys of a mapping, the characters
\* of a text; TypeError on None, a bool or a number
PyIter(v) ==
    CASE v.t = "list" -> Ok(v.l)
      [] v.t = "dict" -> Ok([i \in DOMAIN v.d |-> JStr(v.d[i][1])])
      [] v.t = "str" -> Ok([i \in 1..Len(v.s) |-> JStr(SubSeq(v.s, i, i))])
      [] OTHER -> Raise("TypeError")

\* the chain taking the first operand that is neither None nor '', so that 0,
\* false and empty collections count as values
RECURSIVE OrChainNonEmpty(_)
OrChainNonEmpty(vals) ==
    IF Len(vals) = 1 \/ vals[1] \notin {JNull, JStr("")} THEN vals[1]
    ELSE OrChainNonEmpty(Tail(vals))

\* the chain without its closing default: None when no candidate is truthy
RECURSIVE OrChainOrNone(_)
OrChainOrNone(vals) ==
    IF Len(vals) = 1 THEN JNull
    ELSE IF Truthy(vals[1]) THEN vals[1] ELSE OrChainOrNone(Tail(vals))

\* a or b or ... or z: the first truthy operand, else the last one
RECURSIVE OrChain(_)
OrChain(vals) ==
    IF Len(vals) = 1 \/ Truthy(vals[1]) THEN vals[1] ELSE OrChain(Tail(vals))

Digits == <<"0", "1", "2", "3", "4", "5", "6", "7", "8", "9">>
IsDigit(c) == \E i \in 1..10 : Digits[i] = c
DigitVal(c) == (CHOOSE i \in 1..10 : Digits[i] = c) - 1
Whitespace == {" ", "\t", "\n", "\r"}
CharAt(s, i) == SubSeq(s, i, i)

\* decimal value of a text of digits
RECURSIVE DigitsVal(_)
DigitsVal(s) ==
    IF s = "" THEN 0
    ELSE 10 * DigitsVal(SubSeq(s, 1, Len(s) - 1)) + DigitVal(CharAt(s, Len(s)))

\* text.strip()
RECURSIVE Strip(_)
Strip(s) ==
    IF s = "" THEN s
    ELSE IF CharAt(s, 1) \in Whitespace THEN Strip(SubSeq(s, 2, Len(s)))
    ELSE IF CharAt(s, Len(s)) \in Whitespace THEN Strip(SubSeq(s, 1, Len(s) - 1))
    ELSE s

\* digits, with single underscores allowed between digits
IsIntBody(s) ==
    /\ s # ""
    /\ \A i \in 1..Len(s) :
          \/ IsDigit(CharAt(s, i))
          \/ /\ CharAt(s, i) = "_"
             /\ 1 < i /\ i < Len(s)
             /\ IsDigit(CharAt(s, i - 1)) /\ IsDigit(CharAt(s, i + 1))

RECURSIVE DropUnderscores(_)
DropUnderscores(s) ==
    IF s = "" THEN s
    ELSE IF CharAt(s, 1) = "_" THEN DropUnderscores(SubSeq(s, 2, Len(s)))
    ELSE CharAt(s, 1) \o DropUnderscores(SubSeq(s, 2, Len(s)))

\* int() of a stripped text: optional sign, decimal digits; anything else is a
\* ValueError
SignedToInt(u) ==
    IF u # "" /\ CharAt(u, 1) \in {"+", "-"}
    THEN IF ~IsIntBody(SubSeq(u, 2, Len(u))) THEN Raise("ValueError")
         ELSE IF CharAt(u, 1) = "-"
              THEN Ok(0 - DigitsVal(DropUnderscores(SubSeq(u, 2, Len(u)))))
              ELSE Ok(DigitsVal(DropUnderscores(SubSeq(u, 2, Len(u)))))
    ELSE IF ~IsIntBody(u) THEN Raise("ValueError")
         ELSE Ok(DigitsVal(DropUnderscores(u)))

\* int(text): surrounding white space is dropped first
StrToInt(s) == SignedToInt(Strip(s))

\* int(v)
PyInt(v) ==
    CASE v.t = "int" -> Ok(v.n)
      [] v.t = "bool" -> Ok(IF v.b THEN 1 ELSE 0)
      [] v.t = "float" -> Ok(v.w)
      [] v.t = "str" -> StrToInt(v.s)
      [] OTHER -> Raise("TypeError")

\* decimal digits of a natural number
RECURSIVE NatToStr(_)
NatToStr(n) ==
    IF n < 10 THEN Digits[n + 1] ELSE NatToStr(n \div 10) \o Digits[(n % 10) + 1]

IntToStr(n) == IF n < 0 THEN "-" \o NatToStr(0 - n) ELSE NatToStr(n)

\* repr(v), as str() shows the elements of a list or mapping
RECURSIVE PyRepr(_)
RECURSIVE JoinRepr(_, _)
PyRepr(v) ==
    CASE v.t = "null" -> "None"
      [] v.t = "bool" -> IF v.b THEN "True" ELSE "False"
      [] v.t = "int" -> IntToStr(v.n)
      [] v.t = "float" -> NatToStr(v.w) \o "." \o NatToStr(v.f)
      [] v.t = "str" -> "'" \o v.s \o "'"
      [] v.t = "list" -> "[" \o JoinRepr(v.l, FALSE) \o "]"
      [] v.t = "dict" -> "{" \o JoinRepr(v.d, TRUE) \o "}"
JoinRepr(items, pairs) ==
    IF items = <<>> THEN ""
    ELSE LET one == IF pairs
                    THEN "'" \o items[1][1] \o "': " \o PyRepr(items[1][2])
                    ELSE PyRepr(items[1])
         IN  IF Len(items) = 1 THEN one
             ELSE one \o ", " \o JoinRepr(Tail(items), pairs)

\* str(v)
PyStr(v) == IF v.t = "str" THEN v.s ELSE PyRepr(v)

----------------------------------------------------------------------------
(* datetime.strptime and strftime, as parse_timestamp and format_timestamp *)
(* use them.                                                               *)

\* the six patterns with the day-first slash pattern tried before month-first
formatsDayFirst ==
    << <<"%Y", "-", "%m", "-", "%d", " ", "%H", ":", "%M", ":", "%S">>,
       <<"%Y", "-", "%m", "-", "%d", "T", "%H", ":", "%M", ":", "%S">>,
       <<"%Y", "-", "%m", "-", "%d", "T", "%H", ":", "%M", ":", "%S", "Z">>,
       <<"%Y", "-", "%m", "-", "%d">>,
       <<"%d", "/", "%m", "/", "%Y">>,
       <<"%m", "/", "%d", "/", "%Y">> >>

\* the six patterns of parse_timestamp, in its order; each is a sequence of
\* directives ("%Y" ...), white space (" ") and literal characters
formats ==
    << <<"%Y", "-", "%m", "-", "%d", " ", "%H", ":", "%M", ":", "%S">>,
       <<"%Y", "-", "%m", "-", "%d", "T", "%H", ":", "%M", ":", "%S">>,
       <<"%Y", "-", "%m", "-", "%d", "T", "%H", ":", "%M", ":", "%S", "Z">>,
       <<"%Y", "-", "%m", "-", "%d">>,
       <<"%m", "/", "%d", "/", "%Y">>,
       <<"%d", "/", "%m", "/", "%Y">> >>

\* the pattern is compiled with IGNORECASE
Lower(c) == IF c = "T" THEN "t" ELSE IF c = "Z" THEN "z" ELSE c

In(c, lo, hi) == IsDigit(c) /\ lo <= DigitVal(c) /\ DigitVal(c) <= hi

\* number of white-space characters of s from position pos on
RECURSIVE SpaceRun(_, _)
SpaceRun(s, pos) ==
    IF pos <= Len(s) /\ CharAt(s, pos) \in Whitespace THEN 1 + SpaceRun(s, pos + 1) ELSE 0

\* The lengths a pattern element can consume of s at pos, in the order the
\* regular expression of _strptime tries its alternatives:
\*   %Y \d\d\d\d           %m 1[0-2]|0[1-9]|[1-9]
\*   %d 3[0-1]|[1-2]\d|0[1-9]|[1-9]| [1-9]
\*   %H 2[0-3]|[0-1]\d|\d  %M [0-5]\d|\d      %S 6[0-1]|[0-5]\d|\d
\*   white space \s+ (greedy), a literal character itself
Alternatives(tok, s, pos) ==
    LET a == CharAt(s, pos)
        b == CharAt(s, pos + 1)
        two == pos + 1 <= Len(s)
        If(cond, n) == IF cond THEN <<n>> ELSE <<>>
    IN  IF pos > Len(s) THEN <<>>
        ELSE CASE tok = "%Y" ->
                    If(pos + 3 <= Len(s)
                         /\ \A i \in pos..(pos + 3) : IsDigit(CharAt(s, i)), 4)
               [] tok = "%m" ->
                    If(two /\ a = "1" /\ In(b, 0, 2), 2)
                    \o If(two /\ a = "0" /\ In(b, 1, 9), 2)
                    \o If(In(a, 1, 9), 1)
               [] tok = "%d" ->
                    If(two /\ a = "3" /\ In(b, 0, 1), 2)
                    \o If(two /\ In(a, 1, 2) /\ IsDigit(b), 2)
                    \o If(two /\ a = "0" /\ In(b, 1, 9), 2)
                    \o If(In(a, 1, 9), 1)
                    \o If(two /\ a = " " /\ In(b, 1, 9), 2)
               [] tok = "%H" ->
                    If(two /\ a = "2" /\ In(b, 0, 3), 2)
                    \o If(two /\ In(a, 0, 1) /\ IsDigit(b), 2)
                    \o If(IsDigit(a), 1)
               [] tok = "%M" ->
                    If(two /\ In(a, 0, 5) /\ IsDigit(b), 2)
                    \o If(IsDigit(a), 1)
               [] tok = "%S" ->
                    If(two /\ a = "6" /\ In(b, 0, 1), 2)
                    \o If(two /\ In(a, 0, 5) /\ IsDigit(b), 2)
                    \o If(IsDigit(a), 1)
               [] tok = " " ->
                    [i \in 1..SpaceRun(s, pos) |-> SpaceRun(s, pos) + 1 - i]
               [] OTHER -> If(Lower(a) = Lower(tok), 1)

\* the number a directive read
FieldVal(text) ==
    IF CharAt(text, 1) = " " THEN DigitsVal(SubSeq(text, 2, Len(text))) ELSE DigitsVal(text)

NoFields == [x \in {} |-> 0]

\* r, or other when r failed
OrElse(r, other) == IF r.ok THEN r ELSE other

\* the fields read so far, with what directive tok read as text
WithField(fields, tok, text) ==
    IF Len(tok) = 2 THEN (tok :> FieldVal(text)) @@ fields ELSE fields

\* re.match of the compiled pattern fmt[i..] on s at pos: the first match in
\* backtracking order, as [ok, end, fields]
RECURSIVE ReMatch(_, _, _, _, _)
RECURSIVE TryAlternatives(_, _, _, _, _, _)
ReMatch(fmt, i, s, pos, fields) ==
    IF i > Len(fmt) THEN [ok |-> TRUE, end |-> pos, fields |-> fields]
    ELSE TryAlternatives(fmt, i, s, pos, fields, Alternatives(fmt[i], s, pos))
TryAlternatives(fmt, i, s, pos, fields, alts) ==
    IF alts = <<>> THEN [ok |-> FALSE, end |-> pos, fields |-> fields]
    ELSE OrElse(ReMatch(fmt, i + 1, s, pos + alts[1],
                        WithField(fields, fmt[i], SubSeq(s, pos, pos + alts[1] - 1))),
                TryAlternatives(fmt, i, s, pos, fields, Tail(alts)))

IsLeap(y) == (y % 4 = 0) /\ ((y % 100 # 0) \/ (y % 400 = 0))

DaysInMonth(y, m) ==
    IF m = 2 THEN (IF IsLeap(y) THEN 29 ELSE 28)
    ELSE IF m \in {4, 6, 9, 11} THEN 30 ELSE 31

\* the value of field k, or its default
FieldOr(f, k, default) == IF k \in DOMAIN f THEN f[k] ELSE default

\* datetime(...): the year must be at least 1, the day must exist in the month
\* and a second of 60 or 61, which %S reads, is refused
MakeDatetime(f) ==
    IF \/ FieldOr(f, "%Y", 1900) < 1
       \/ FieldOr(f, "%d", 1) > DaysInMonth(FieldOr(f, "%Y", 1900), FieldOr(f, "%m", 1))
       \/ FieldOr(f, "%S", 0) > 59
    THEN Raise("ValueError")
    ELSE Ok([t |-> "datetime",
             year |-> FieldOr(f, "%Y", 1900), month |-> FieldOr(f, "%m", 1),
             day |-> FieldOr(f, "%d", 1), hour |-> FieldOr(f, "%H", 0),
             minute |-> FieldOr(f, "%M", 0), second |-> FieldOr(f, "%S", 0)])

\* what strptime makes of the match m of a text of length n: the pattern must
\* have matched and no text may remain
FromMatch(m, n) ==
    IF ~m.ok \/ m.end # n + 1 THEN Raise("ValueError") ELSE MakeDatetime(m.fields)

\* datetime.strptime(s, fmt)
Strptime(s, fmt) == FromMatch(ReMatch(fmt, 1, s, 1, NoFields), Len(s))

\* the value r returned, or other when it raised
ValueOr(r, other) == IF r.ok THEN r.val ELSE other

\* the loop of parse_timestamp over formats[i..]: the first pattern that parses
RECURSIVE TryFormats(_, _)
TryFormats(s, i) ==
    IF i > Len(formats) THEN JNull
    ELSE ValueOr(Strptime(s, formats[i]), TryFormats(s, i + 1))

\* parse_timestamp falling back to the epoch when no pattern parses
ParseOrEpoch(v) ==
    IF ~Truthy(v) THEN JNull
    ELSE IF TryFormats(PyStr(v), 1) # JNull THEN TryFormats(PyStr(v), 1)
    ELSE [t |-> "datetime", year |-> 1970, month |-> 1, day |-> 1,
          hour |-> 0, minute |-> 0, second |-> 0]

parse_timestamp(v) == IF ~Truthy(v) THEN JNull ELSE TryFormats(PyStr(v), 1)

\* text d with zeros put before it up to width w
RECURSIVE ZeroFill(_, _)
ZeroFill(d, w) == IF Len(d) >= w THEN d ELSE ZeroFill("0" \o d, w)

\* zero-padded decimal of width w
Pad(n, w) == ZeroFill(NatToStr(n), w)

\* %Y as the C library writes it: glibc does not pad a year below 1000, other
\* libraries (and later interpreters) write four digits
YearText(y) == IF zero_pad_year THEN Pad(y, 4) ELSE NatToStr(y)

format_timestamp(dt) ==
    IF dt.t = "null" THEN ""
    ELSE YearText(dt.year) \o "-" \o Pad(dt.month, 2) \o "-" \o Pad(dt.day, 2) \o " "
         \o Pad(dt.hour, 2) \o ":" \o Pad(dt.minute, 2) \o ":" \o Pad(dt.second, 2)

----------------------------------------------------------------------------
(* The extractor.                                                          *)

\* v, replaced by other `if not v`
IfNot(v, other) == IF ~Truthy(v) THEN other ELSE v

\* int(v) if v else 0
IntOrZero(v) == IF Truthy(v) THEN PyInt(v) ELSE Ok(0)

\* the keys of a record, in the order _create_tech_row writes them
RowFields ==
    <<"Category", "Subcategory", "Live Count", "Dead Count",
      "Latest Timestamp", "Oldest Timestamp", "Latest_Time", "Oldest_Time">>

\* _create_tech_row(tech, parent_data, category_override): the record of one
\* technology entry, as the sequence of its <<key, value>> pairs.  tech.get
\* raises AttributeError unless tech is a mapping; int() may raise.
\* parent_data is not read.
_create_tech_row(tech_obj, parent_data, override) ==
    IF tech_obj.t # "dict" THEN Raise("AttributeError")
    ELSE
    LET get(k, default) == DictGet(tech_obj, k, default)
        E == JStr("")
        Z == JInt(0)
        subcategory ==
            OrChain(<<get("SubCategory", E), get("Subcategory", E), get("subcategory", E), E>>)
        category ==
            IfNot(OrChain(<<override, get("Category", E), get("category", E), E>>),
                  OrChain(<<get("Name", E), get("name", E), get("Technology", E), E>>))
        live_count == OrChain(<<get("LiveCount", Z), get("live_count", Z), get("Live", Z), Z>>)
        dead_count == OrChain(<<get("DeadCount", Z), get("dead_count", Z), get("Dead", Z), Z>>)
        latest_timestamp ==
            OrChain(<<get("Latest", E), get("latest", E), get("LatestTimestamp", E), E>>)
        oldest_timestamp ==
            OrChain(<<get("Oldest", E), get("oldest", E), get("OldestTimestamp", E), E>>)
        latest_time == format_timestamp(parse_timestamp(latest_timestamp))
        oldest_time == format_timestamp(parse_timestamp(oldest_timestamp))
        row_of(live, dead) ==
            << <<"Category", category>>,
               <<"Subcategory", subcategory>>,
               <<"Live Count", JInt(live)>>,
               <<"Dead Count", JInt(dead)>>,
               <<"Latest Timestamp", latest_timestamp>>,
               <<"Oldest Timestamp", oldest_timestamp>>,
               <<"Latest_Time", JStr(latest_time)>>,
               <<"Oldest_Time", JStr(oldest_time)>> >>
    IN  Then(IntOrZero(live_count),
             LAMBDA live : Then(IntOrZero(dead_count), LAMBDA dead : Ok(row_of(live, dead))))

\* for tech in items[i..]: rows.append(_create_tech_row(tech, parent, override));
\* every row is a non-empty mapping, so `if row` never drops one
RECURSIVE RowsOfTechs(_, _, _, _, _)
RowsOfTechs(items, i, parent_data, override, rows) ==
    IF i > Len(items) THEN Ok(rows)
    ELSE Then(_create_tech_row(items[i], parent_data, override),
              LAMBDA r : RowsOfTechs(items, i + 1, parent_data, override, Append(rows, r)))

\* for tech in holder['Technologies']: ..., appended to rows
TechnologiesOf(holder, override, rows) ==
    Then(PySubscript(holder, "Technologies"),
         LAMBDA list : Then(PyIter(list),
                            LAMBDA items : RowsOfTechs(items, 1, holder, override, rows)))

\* the loop over the paths ending at the first path without 'Technologies'
RECURSIVE RowsOfPathsUntilGap(_, _, _)
RowsOfPathsUntilGap(paths, i, rows) ==
    IF i > Len(paths) THEN Ok(rows)
    ELSE Then(PyIn("Technologies", paths[i]),
              LAMBDA has :
                 IF ~has THEN Ok(rows)
                 ELSE Then(TechnologiesOf(paths[i], JNull, rows),
                           LAMBDA more : RowsOfPathsUntilGap(paths, i + 1, more)))

\* for path in paths[i..]: if 'Technologies' in path: ...
RECURSIVE RowsOfPaths(_, _, _)
RowsOfPaths(paths, i, rows) ==
    IF i > Len(paths) THEN Ok(rows)
    ELSE Then(Then(PyIn("Technologies", paths[i]),
                   LAMBDA has : IF has THEN TechnologiesOf(paths[i], JNull, rows)
                                ELSE Ok(rows)),
              LAMBDA more : RowsOfPaths(paths, i + 1, more))

\* the loop over the categories creating the records without the override
RECURSIVE RowsOfCategoriesUnnamed(_, _, _)
RowsOfCategoriesUnnamed(items, i, rows) ==
    IF i > Len(items) THEN Ok(rows)
    ELSE Then(IF items[i][2].t = "dict" /\ HasKey(items[i][2], "Technologies")
              THEN TechnologiesOf(items[i][2], JNull, rows)
              ELSE Ok(rows),
              LAMBDA more : RowsOfCategoriesUnnamed(items, i + 1, more))

\* for category_name, category_data in categories.items()[i..]:
\*     if isinstance(category_data, dict) and 'Technologies' in category_data: ...
RECURSIVE RowsOfCategories(_, _, _)
RowsOfCategories(items, i, rows) ==
    IF i > Len(items) THEN Ok(rows)
    ELSE Then(IF items[i][2].t = "dict" /\ HasKey(items[i][2], "Technologies")
              THEN TechnologiesOf(items[i][2], JStr(items[i][1]), rows)
              ELSE Ok(rows),
              LAMBDA more : RowsOfCategories(items, i + 1, more))

\* the 'Paths' branch of _extract_from_result
PathsBranch(result) ==
    Then(PySubscript(result, "Paths"),
         LAMBDA paths : Then(PyIter(paths), LAMBDA items : RowsOfPaths(items, 1, <<>>)))

\* the 'Categories' branch keeping one record of each kind: a record equal to
\* an earlier one is dropped
CategoriesDeduplicated(result) ==
    Then(PySubscript(result, "Categories"),
         LAMBDA cats :
            IF cats.t # "dict" THEN Raise("AttributeError")
            ELSE Then(RowsOfCategories(cats.d, 1, <<>>),
                      LAMBDA rows :
                         LET first == {i \in DOMAIN rows :
                                          \A j \in 1..(i - 1) : rows[j] # rows[i]}
                             nth(k) == CHOOSE i \in first :
                                          Cardinality({j \in first : j < i}) = k - 1
                         IN  Ok([k \in 1..Cardinality(first) |-> rows[nth(k)]])))

\* the 'Categories' branch: .items() raises AttributeError unless the value is
\* a mapping
CategoriesBranch(result) ==
    Then(PySubscript(result, "Categories"),
         LAMBDA cats : IF cats.t # "dict" THEN Raise("AttributeError")
                       ELSE RowsOfCategories(cats.d, 1, <<>>))

\* _extract_from_result with the chain falling through to the next key when a
\* branch yields no record
ExtractFallingThrough(result) ==
    Then(PyIn("Paths", result),
         LAMBDA inPaths :
            Then(IF inPaths THEN PathsBranch(result) ELSE Ok(<<>>),
                 LAMBDA fromPaths :
                    IF fromPaths # <<>> THEN Ok(fromPaths)
                    ELSE Then(IF PyIn("Technologies", result).val
                              THEN TechnologiesOf(result, JNull, <<>>) ELSE Ok(<<>>),
                              LAMBDA fromTechs :
                                 IF fromTechs # <<>> THEN Ok(fromTechs)
                                 ELSE IF PyIn("Categories", result).val
                                      THEN CategoriesBranch(result)
                                      ELSE Ok(<<>>))))

\* _extract_from_result(result): the if / elif / elif chain on key presence
_extract_from_result(result) ==
    Then(PyIn("Paths", result),
         LAMBDA inPaths :
            IF inPaths THEN PathsBranch(result)
            ELSE IF PyIn("Technologies", result).val THEN TechnologiesOf(result, JNull, <<>>)
            ELSE IF PyIn("Categories", result).val THEN CategoriesBranch(result)
            ELSE Ok(<<>>))

\* for result in results[i..]: rows.extend(_extract_from_result(result))
RECURSIVE RowsOfResults(_, _, _)
RowsOfResults(results, i, rows) ==
    IF i > Len(results) THEN Ok(rows)
    ELSE Then(_extract_from_result(results[i]),
              LAMBDA r : RowsOfResults(results, i + 1, rows \o r))

\* the selection with 'Results' used only when its value is a list, 'result'
\* being tried otherwise
SelectListResults(data) ==
    Then(PyIn("Results", data),
         LAMBDA inResults :
            IF inResults /\ PySubscript(data, "Results").val.t = "list"
            THEN PySubscript(data, "Results")
            ELSE IF PyIn("result", data).val THEN PySubscript(data, "result")
            ELSE Ok(data))

\* the value the if / elif / else on 'Results' and 'result' selects
SelectResults(data) ==
    Then(PyIn("Results", data),
         LAMBDA inResults :
            IF inResults THEN PySubscript(data, "Results")
            ELSE IF PyIn("result", data).val THEN PySubscript(data, "result")
            ELSE Ok(data))

\* the isinstance dispatch of extract_technology_data on the selected value
RowsOfSelected(results) ==
    IF results.t = "list" THEN RowsOfResults(results.l, 1, <<>>)
    ELSE IF results.t = "dict" THEN _extract_from_result(results)
    ELSE Ok(<<>>)

\* extract_technology_data(builtwith_data)
extract_technology_data(data) == Then(SelectResults(data), RowsOfSelected)

----------------------------------------------------------------------------
(* The spreadsheet writers (src/main.py, src/builtwith_excel.py).  A       *)
(* workbook is the sequence of its sheets; a sheet has a name, a header    *)
(* row and data rows; a data row is the sequence of its cells in column    *)
(* order, each the value the data frame holds.                             *)

\* required_columns: the columns of the main sheet, in order
required_columns ==
    <<"Category", "Subcategory", "Live Count", "Dead Count",
      "Latest Timestamp", "Oldest Timestamp", "Latest_Time", "Oldest_Time">>

\* pd.DataFrame(technology_data)[required_columns]: one row per record, its
\* cells in column order (every record holds every column)
DataFrame(records) ==
    [i \in DOMAIN records |->
        [c \in DOMAIN required_columns |-> Lookup(JDict(records[i]), required_columns[c])]]

\* s.split('\n')
RECURSIVE SplitLines(_)
SplitLines(s) ==
    IF \E i \in 1..Len(s) : CharAt(s, i) = "\n"
    THEN <<SubSeq(s, 1, (CHOOSE i \in 1..Len(s) :
                           /\ CharAt(s, i) = "\n"
                           /\ \A j \in 1..(i - 1) : CharAt(s, j) # "\n") - 1)>>
         \o SplitLines(SubSeq(s, (CHOOSE i \in 1..Len(s) :
                                    /\ CharAt(s, i) = "\n"
                                    /\ \A j \in 1..(i - 1) : CharAt(s, j) # "\n") + 1, Len(s)))
    ELSE <<s>>

\* the row with Category a, Subcategory b and every other column ''
TextRow(a, b) ==
    [c \in DOMAIN required_columns |-> IF c = 1 THEN JStr(a) ELSE IF c = 2 THEN JStr(b) ELSE JStr("")]

\* analysis_rows with a row for every line, blank or not
AnalysisRowsOfAllLines(text) ==
    [i \in DOMAIN SplitLines(text) |-> TextRow("", Strip(SplitLines(text)[i]))]

\* analysis_rows: one row per line that is not blank, holding the stripped line
analysis_rows(text) ==
    [i \in DOMAIN SelectSeq(SplitLines(text), LAMBDA line : Strip(line) # "") |->
        TextRow("", Strip(SelectSeq(SplitLines(text), LAMBDA line : Strip(line) # "")[i]))]

\* the rows of the main sheet: the records, then, when the analysis has a line
\* that is not blank, the separator row and the analysis rows
AppendedRows(records, analysis) ==
    IF Truthy(analysis) /\ analysis_rows(analysis.s) # <<>>
    THEN DataFrame(records) \o <<TextRow("---", "Ollama Analysis")>> \o analysis_rows(analysis.s)
    ELSE DataFrame(records)

\* the sheet 'LLM Analysis', written when there is analysis text
AnalysisSheet(analysis) ==
    IF Truthy(analysis)
    THEN <<[name |-> "LLM Analysis", header |-> <<"LLM Analysis">>, rows |-> << <<analysis>> >>]>>
    ELSE <<>>

\* create_excel_with_ollama_append(technology_data, llm_analysis, output_file):
\* the workbook written
create_excel_with_ollama_append(records, analysis) ==
    <<[name |-> "Technology Stack", header |-> required_columns,
       rows |-> AppendedRows(records, analysis)]>>
    \o AnalysisSheet(analysis)

\* create_excel_from_data(technology_data, llm_analysis, output_file)
create_excel_from_data(records, analysis) ==
    <<[name |-> "Technology Stack", header |-> required_columns, rows |-> DataFrame(records)]>>
    \o AnalysisSheet(analysis)

----------------------------------------------------------------------------
(* Bounded inputs.                                                         *)

MaxTechs == 2      \* technology entries in one list
MaxPaths == 2      \* path entries in one 'Paths' list
MaxResults == 2    \* elements of one 'Results' / 'result' list
MaxCount == 2      \* integer counts range over 0..MaxCount

\* a key left out of a mapping under construction
Absent == [t |-> "absent"]

RECURSIVE Present(_)
Present(pairs) ==
    IF pairs = <<>> THEN <<>>
    ELSE IF pairs[1][2].t = "absent" THEN Present(Tail(pairs))
    ELSE <<pairs[1]>> \o Present(Tail(pairs))

\* the mapping holding the pairs whose value is not Absent, in order
Obj(pairs) == JDict(Present(pairs))

SeqsUpTo(S, n) == UNION {[1..k -> S] : k \in 0..n}

\* timestamp texts: dash dates with an optional time part, slash dates read
\* month-first or day-first, and texts no pattern matches
YearTexts == {"2024", "2023", "0987", "0000"}
MonthTexts == {"03", "3", "12", "13", "00", "02"}
DayTexts == {"04", "4", "15", "29", "30", "31", "00", " 4"}
TimeTexts ==
    {"", " 10:20:30", "T10:20:30", "T10:20:30Z", "t10:20:30z", "  7:5:9", "\t01:02:03",
     " 23:59:59", " 24:00:00", " 10:60:00", " 10:20:60", " 10:20:61", " 10:20", "Z",
     "T10:20:30 ", " 10:20:30Z"}
DashDates ==
    {y \o "-" \o m \o "-" \o d \o tt :
        y \in YearTexts, m \in MonthTexts, d \in DayTexts, tt \in TimeTexts}
SlashDates ==
    {a \o "/" \o b \o "/" \o y :
        a \in MonthTexts \cup DayTexts, b \in MonthTexts \cup DayTexts, y \in YearTexts}
OtherTexts ==
    {"", "not-a-date", "2024", "20240315", "03/04/24", "2024/03/15", " 2024-03-15",
     "2024-03-15 ", "03/04/2024 ", "03-04-2024", "15/03/2024T10:20:30"}
TimestampTexts == DashDates \cup SlashDates \cup OtherTexts

\* values of other JSON types found under a timestamp key
OddTimestamps ==
    {JNull, JBool(FALSE), JBool(TRUE), JFloat(12, 5), JList(<<>>),
     JList(<<JStr("2024-03-15")>>), JDict(<<>>), JDict(<<<<"Latest", JStr("2024-03-15")>>>>)}
    \cup {JInt(n) : n \in 0..MaxCount}

TimestampValues == {JStr(s) : s \in TimestampTexts} \cup OddTimestamps

\* candidate keys of each output field, in the priority order of _create_tech_row
CategoryKeys == <<"Category", "category">>
NameKeys == <<"Name", "name", "Technology">>
SubcategoryKeys == <<"SubCategory", "Subcategory", "subcategory">>
LiveKeys == <<"LiveCount", "live_count", "Live">>
DeadKeys == <<"DeadCount", "dead_count", "Dead">>
LatestKeys == <<"Latest", "latest", "LatestTimestamp">>
OldestKeys == <<"Oldest", "oldest", "OldestTimestamp">>

\* a technology entry as the profiling API documents it, and variants of it
StdTech ==
    JDict(<< <<"Name", JStr("jQuery")>>, <<"Category", JStr("JavaScript")>>,
             <<"SubCategory", JStr("Library")>>, <<"LiveCount", JInt(2)>>,
             <<"DeadCount", JStr("1")>>, <<"Latest", JStr("2024-03-15")>>,
             <<"Oldest", JStr("01/02/2023")>> >>)
AltTech ==
    JDict(<< <<"name", JStr("nginx")>>, <<"subcategory", JStr("Server")>>,
             <<"live_count", JStr("12")>>, <<"latest", JStr("not-a-date")>> >>)
BadCountTech == JDict(<< <<"Name", JStr("x")>>, <<"LiveCount", JStr("abc")>> >>)
EmptyTech == JDict(<<>>)

\* text values of a key, one of them naming the key so that the candidate a
\* field came from shows in the record
TextOptions(k) == {Absent, JNull, JStr(""), JStr("v-" \o k), JInt(0)}
CountOptions ==
    {Absent, JNull, JStr(""), JStr("12"), JStr(" 7 "), JStr("abc"), JStr("12.5"),
     JBool(TRUE), JFloat(12, 5), JList(<<>>), JList(<<JInt(1)>>)}
    \cup {JInt(n) : n \in 0..MaxCount}
TimestampOptions ==
    {Absent, JNull, JStr(""), JStr("2024-03-15"), JStr("not-a-date"), JStr("03/04/2024"),
     JStr("0987-03-15"), JInt(0), JInt(1), JList(<<JStr("2024-03-15")>>)}

\* the mappings giving each key of keys one of its options, laid over base
Assignments(keys, Options(_)) ==
    {[i \in 1..Len(keys) |-> <<keys[i], f[i]>>] :
        f \in {g \in [1..Len(keys) -> UNION {Options(keys[i]) : i \in 1..Len(keys)}] :
                  \A i \in 1..Len(keys) : g[i] \in Options(keys[i])}}

\* base with the keys of pairs removed, followed by the pairs that are present
Overlay(base, pairs) ==
    LET keep == SelectSeq(base.d, LAMBDA p : \A i \in 1..Len(pairs) : pairs[i][1] # p[1])
    IN  JDict(keep \o Present(pairs))

\* technology entries: every assignment of one field's candidate keys, alone or
\* laid over a documented entry; and entries that are no mapping
TechObjects ==
    {Overlay(base, a) :
        base \in {EmptyTech, StdTech},
        a \in Assignments(CategoryKeys \o NameKeys, TextOptions)
              \cup Assignments(SubcategoryKeys, TextOptions)}
    \cup {Overlay(EmptyTech, a) :
        a \in Assignments(LiveKeys, LAMBDA k : CountOptions)
              \cup Assignments(DeadKeys, LAMBDA k : CountOptions)
              \cup Assignments(LatestKeys, LAMBDA k : TimestampOptions)
              \cup Assignments(OldestKeys, LAMBDA k : TimestampOptions)}
    \cup {StdTech, AltTech, BadCountTech,
          JNull, JStr("jQuery"), JInt(1), JList(<<>>), JList(<<StdTech>>)}

\* category_override: None outside the 'Categories' branch, a category key in it
Overrides == {JNull, JStr(""), JStr("Analytics")}

\* lists of technology entries
GoodTechLists == {JList(<<>>), JList(<<StdTech>>), JList(<<AltTech, StdTech>>)}
TechLists == {JList(l) : l \in SeqsUpTo({StdTech, AltTech, BadCountTech, JStr("jQuery")}, MaxTechs)}

\* path entries: with technologies, without, and entries that are no mapping
PathEntries ==
    {JDict(<< <<"Url", JStr("/")>>, <<"Technologies", tl>> >>) : tl \in GoodTechLists}
    \cup {JDict(<< <<"Url", JStr("/")>> >>), JDict(<< <<"Technologies", JNull>> >>),
          JStr("p"), JNull}

\* values of 'Paths', 'Technologies' and 'Categories' in a result object
PathsValues ==
    {JList(l) : l \in SeqsUpTo(PathEntries, MaxPaths)}
    \cup {JNull, JStr("x"), JInt(5),
          JDict(<< <<"Technologies", JList(<<StdTech>>)>> >>)}
TechnologiesValues ==
    TechLists \cup {JNull, JStr(""), JStr("ab"), JInt(5), JDict(<< <<"Name", JStr("x")>> >>)}
CategoryData ==
    {JDict(<< <<"Technologies", tl>> >>) : tl \in {JList(<<>>), JList(<<StdTech>>), JList(<<AltTech, StdTech>>)}}
    \cup {JDict(<< <<"Count", JInt(1)>> >>), JStr("n/a"), JList(<<StdTech>>), JNull}
CategoriesValues ==
    {JDict(<<>>)}
    \cup {JDict(<< <<k, a>> >>) : k \in {"Analytics", ""}, a \in CategoryData}
    \cup {JDict(<< <<k[1], a>>, <<k[2], b>> >>) :
            k \in {<<"Analytics", "CDN">>, <<"CDN", "Analytics">>},
            a \in CategoryData, b \in CategoryData}
    \cup {JNull, JStr("x"), JList(<<StdTech>>)}

\* a few values of each key, to stand beside a key of higher priority
FewTechnologies == {Absent, JList(<<AltTech>>), JNull}
FewCategories ==
    {Absent, JDict(<< <<"Analytics", JDict(<< <<"Technologies", JList(<<AltTech>>)>> >>)>> >>),
     JNull}

ResultObject(p, c, g) ==
    Obj(<< <<"Domain", JStr("example.com")>>, <<"Paths", p>>, <<"Technologies", c>>,
           <<"Categories", g>> >>)

\* result objects: every value of the key its branch reads, beside a few values
\* of the keys of lower priority
ResultObjects ==
    {ResultObject(p, c, g) : p \in PathsValues, c \in FewTechnologies, g \in FewCategories}
    \cup {ResultObject(Absent, c, g) : c \in TechnologiesValues, g \in FewCategories}
    \cup {ResultObject(Absent, Absent, g) : g \in CategoriesValues \cup {Absent}}

\* a few result objects, and elements of a results list that are no mapping
FewResults ==
    {ResultObject(JList(<<JDict(<< <<"Technologies", JList(<<StdTech>>)>> >>)>>), Absent, Absent),
     ResultObject(Absent, JList(<<AltTech>>), Absent),
     ResultObject(Absent, Absent,
                  JDict(<< <<"CDN", JDict(<< <<"Technologies", JList(<<StdTech>>)>> >>)>> >>)),
     ResultObject(Absent, Absent, Absent)}
OddResults == {JNull, JInt(1), JStr("Paths"), JList(<<JStr("Paths")>>)}

\* values of 'Results' and 'result'
ResultsValues ==
    {JList(l) : l \in SeqsUpTo(FewResults \cup OddResults, MaxResults)}
    \cup FewResults \cup {JNull, JStr("oops"), JInt(7), JBool(TRUE)}
FewResultsValues ==
    {Absent, JList(<<ResultObject(Absent, JList(<<AltTech>>), Absent)>>),
     ResultObject(Absent, JList(<<AltTech>>), Absent), JList(<<>>), JNull, JStr("oops")}

\* decoded documents: a result object by itself; and documents with 'Results',
\* 'result' or both, which may carry technology keys of their own
Documents ==
    ResultObjects
    \cup {Obj(<< <<"Results", R>>, <<"result", r>>, <<"Technologies", c>> >>) :
            R \in ResultsValues, r \in FewResultsValues, c \in {Absent, JList(<<StdTech>>)}}
    \cup {Obj(<< <<"result", r>>, <<"Technologies", c>> >>) :
            r \in ResultsValues, c \in {Absent, JList(<<StdTech>>)}}

\* entries placed in the three shapes, and the category key of the third
ShapeTechs == {StdTech, AltTech, BadCountTech, EmptyTech, JStr("jQuery")}
ShapeTechLists == SeqsUpTo(ShapeTechs, MaxTechs)
CategoryNames == {"Analytics", "CDN", ""}

\* the result object holding the entries in one of the three shapes
Shaped(shape, entries, name) ==
    CASE shape = "Paths" ->
            JDict(<< <<"Paths", JList(<<JDict(<< <<"Technologies", JList(entries)>> >>)>>)>> >>)
      [] shape = "Technologies" -> JDict(<< <<"Technologies", JList(entries)>> >>)
      [] shape = "Categories" ->
            JDict(<< <<"Categories",
                       JDict(<< <<name, JDict(<< <<"Technologies", JList(entries)>> >>)>> >>)>> >>)

\* the documents a result object can arrive in
Wrapped(result) ==
    {result, JDict(<< <<"Results", JList(<<result>>)>> >>),
     JDict(<< <<"result", result>> >>), JDict(<< <<"result", JList(<<result>>)>> >>)}

----------------------------------------------------------------------------
(* Runs of one function.  Each specification draws the arguments of one    *)
(* function from the bounded inputs and applies the function.              *)

Shapes == {"Paths", "Technologies", "Categories"}

NoExtract == builtwith_data = JNull /\ technology_data = NotRun
NoRow == tech = JNull /\ category_override = JNull /\ row = NotRun
NoTimestamp == timestamp_str = JNull /\ formatted = "" /\ reformatted = ""
NoShapes == techs = <<>> /\ category_name = "" /\ shape_rows = [s \in Shapes |-> NotRun]
NoRun ==
    /\ entry = "" /\ args = JNull /\ BUILTWITH_API_KEY = JNull /\ llm_analysis = JNull
    /\ full_response = "" /\ chunks = <<>> /\ workbook = <<>> /\ trace = <<>>
    /\ report = <<>> /\ exit_status = JNull

\* the timestamp normalizer on one value
InitTimestamp ==
    /\ pc = "timestamp"
    /\ timestamp_str \in TimestampValues
    /\ formatted = "" /\ reformatted = ""
    /\ zero_pad_year \in BOOLEAN
    /\ NoExtract /\ NoRow /\ NoShapes /\ NoRun

NormalizeTimestamp ==
    /\ pc = "timestamp"
    /\ formatted' = format_timestamp(parse_timestamp(timestamp_str))
    /\ pc' = "formatted"
    /\ UNCHANGED <<timestamp_str, reformatted, zero_pad_year, extractVars, rowVars, shapeVars, runVars>>

\* the normalizer applied to its own result
NormalizeAgain ==
    /\ pc = "formatted"
    /\ reformatted' = format_timestamp(parse_timestamp(JStr(formatted)))
    /\ pc' = "reformatted"
    /\ UNCHANGED <<timestamp_str, formatted, zero_pad_year, extractVars, rowVars, shapeVars, runVars>>

NextTimestamp == NormalizeTimestamp \/ NormalizeAgain

SpecTimestamp == InitTimestamp /\ [][NextTimestamp]_vars

\* the field normalizer on one technology entry
InitRow ==
    /\ pc = "row"
    /\ tech \in TechObjects
    /\ category_override \in Overrides
    /\ row = NotRun
    /\ zero_pad_year \in BOOLEAN
    /\ NoExtract /\ NoTimestamp /\ NoShapes /\ NoRun

CreateTechRow ==
    /\ pc = "row"
    /\ row' = _create_tech_row(tech, JNull, category_override)
    /\ pc' = "row-done"
    /\ UNCHANGED <<tech, category_override, zero_pad_year, extractVars, timestampVars,
                   shapeVars, runVars>>

NextRow == CreateTechRow

SpecRow == InitRow /\ [][NextRow]_vars

\* the extractor on one decoded document
Init ==
    /\ pc = "extract"
    /\ builtwith_data \in Documents
    /\ technology_data = NotRun
    /\ zero_pad_year \in BOOLEAN
    /\ NoRow /\ NoTimestamp /\ NoShapes /\ NoRun

ExtractTechnologyData ==
    /\ pc = "extract"
    /\ technology_data' = extract_technology_data(builtwith_data)
    /\ pc' = "extracted"
    /\ UNCHANGED <<builtwith_data, zero_pad_year, rowVars, timestampVars, shapeVars, runVars>>

Next == ExtractTechnologyData

Spec == Init /\ [][Next]_vars

\* the extractor on one list of technology entries placed in each shape
InitShapes ==
    /\ pc = "shapes"
    /\ techs \in ShapeTechLists
    /\ category_name \in CategoryNames
    /\ shape_rows = [s \in Shapes |-> NotRun]
    /\ zero_pad_year \in BOOLEAN
    /\ NoExtract /\ NoRow /\ NoTimestamp /\ NoRun

ExtractShape(shape) ==
    /\ pc = "shapes"
    /\ shape_rows[shape] = NotRun
    /\ \E doc \in Wrapped(Shaped(shape, techs, category_name)) :
          shape_rows' = [shape_rows EXCEPT ![shape] = extract_technology_data(doc)]
    /\ UNCHANGED <<pc, techs, category_name, zero_pad_year, extractVars, rowVars,
                   timestampVars, runVars>>

ExtractPathsShape == ExtractShape("Paths")
ExtractTechnologiesShape == ExtractShape("Technologies")
ExtractCategoriesShape == ExtractShape("Categories")

NextShapes == ExtractPathsShape \/ ExtractTechnologiesShape \/ ExtractCategoriesShape

SpecShapes == InitShapes /\ [][NextShapes]_vars

----------------------------------------------------------------------------
(* The entry points: main of builtwith_client.py, builtwith_ollama.py,     *)
(* builtwith_excel.py and main.py, with the profiling API, the chat        *)
(* service and the file system as the environment.  An exception is its    *)
(* type and its message; a message of a library is given in short.         *)

\* parser.parse_args(): the arguments an entry point accepts; the domain is
\* optional in builtwith_excel only; --llm is given as direct text
Arguments(e) ==
    {[domain |-> d, excel |-> x, stream |-> st, json |-> j, llm |-> l] :
        d \in (IF e = "builtwith_excel" THEN {JNull} ELSE {})
              \cup {JStr("example.com"), JStr(" example.com "), JStr(""), JStr("  ")},
        x \in (IF e = "main" THEN BOOLEAN ELSE {FALSE}),
        st \in (IF e \in {"main", "builtwith_ollama"} THEN BOOLEAN ELSE {FALSE}),
        j \in (IF e = "builtwith_excel" THEN {JNull, JStr("data.json")} ELSE {JNull}),
        l \in (IF e = "builtwith_excel" THEN {JNull, JStr("Uses jQuery.")} ELSE {JNull})}

\* decoded documents: without technology structure, with two entries under a
\* path, with API errors, with one entry, with a count int() rejects, and two
\* that are no mapping
RunDocuments ==
    {JDict(<< <<"foo", JStr("bar")>> >>),
     JDict(<< <<"Results", JList(<<Shaped("Paths", <<StdTech, AltTech>>, "")>>)>> >>),
     JDict(<< <<"Errors", JList(<<JDict(<< <<"Message", JStr("Invalid key")>> >>)>>)>>,
              <<"Results", JList(<<>>)>> >>),
     Shaped("Technologies", <<StdTech>>, ""),
     Shaped("Technologies", <<BadCountTech>>, ""),
     JInt(5), JList(<<JStr("Errors")>>)}

\* what requests.get, raise_for_status and response.json() do: a decoded
\* body, or the exception raised; an undecodable body raises a
\* RequestException (InvalidJSONError) in requests 2.27 and later and a plain
\* ValueError (JSONDecodeError) before
Responses ==
    {[kind |-> "ok", status |-> 200, body |-> d] : d \in RunDocuments}
    \cup {[kind |-> k, status |-> 0, body |-> JNull] :
            k \in {"Timeout", "ConnectionError", "InvalidJSONError", "JSONDecodeError"}}
    \cup {[kind |-> "HTTPError", status |-> s, body |-> JNull] : s \in {401, 404, 500}}

\* what the chat service does: the chunk contents it sends, and the exception
\* that ends the call if one does ("" when none); without streaming the
\* content of the complete message is the chunk contents joined
ChatReplies ==
    {[chunks |-> c, failure |-> ""] :
        c \in {<<>>, <<"Uses jQuery.">>, <<"Uses ", "jQuery.">>, <<"a\n", "\n b \n", "c">>,
               <<"  ">>, <<"\n", "\n">>, <<"", "x">>}}
    \cup {[chunks |-> c, failure |-> f] :
            c \in {<<>>, <<"Uses ">>}, f \in {"RequestError", "ResponseError", "ConnectionError"}}

Exc(type, msg) == [type |-> type, msg |-> msg]

\* str(e) of the exception a response stands for
ErrorText(response) ==
    CASE response.kind = "Timeout" -> "Read timed out. (read timeout=30)"
      [] response.kind = "ConnectionError" -> "Max retries exceeded with url: /v22/api.json"
      [] response.kind = "HTTPError" ->
            NatToStr(response.status)
            \o (CASE response.status = 401 -> " Client Error: Unauthorized"
                  [] response.status = 404 -> " Client Error: Not Found"
                  [] OTHER -> " Server Error: Internal Server Error")
            \o " for url: https://api.builtwith.com/v22/api.json"
      [] OTHER -> "Expecting value: line 1 column 1 (char 0)"

\* get_builtwith_data(domain) of the module, for what the API does
get_builtwith_data(module, domain, response) ==
    CASE response.kind = "ok" -> Ok(response.body)
      [] response.kind = "JSONDecodeError" -> Raise(Exc("JSONDecodeError", ErrorText(response)))
      [] module = "builtwith_excel" ->
            Raise(Exc("RequestException", "BuiltWith API request failed: " \o ErrorText(response)))
      [] response.kind = "Timeout" ->
            Raise(Exc("RequestException", "Request timed out. Please try again."))
      [] response.kind = "HTTPError" /\ response.status = 401 ->
            Raise(Exc("RequestException", "Authentication failed. Please check your API key."))
      [] response.kind = "HTTPError" /\ response.status = 404 ->
            Raise(Exc("RequestException", "Domain '" \o domain \o "' not found or invalid."))
      [] response.kind = "HTTPError" ->
            Raise(Exc("RequestException",
                      "HTTP error " \o NatToStr(response.status) \o ": " \o ErrorText(response)))
      [] OTHER -> Raise(Exc("RequestException", "Request failed: " \o ErrorText(response)))

\* load_json_file(json_file), for what the file system does
load_json_file(json_file, file) ==
    CASE file.kind = "ok" -> Ok(file.body)
      [] file.kind = "FileNotFoundError" ->
            Raise(Exc("FileNotFoundError", "JSON file not found: " \o json_file))
      [] OTHER ->
            Raise(Exc("ValueError",
                      "Invalid JSON in file " \o json_file \o ": " \o ErrorText(file)))

\* full_response += content with the operands exchanged
AccumulateInFront(text, content) == content \o text

\* full_response += content
Accumulate(text, content) == text \o content

\* response['message']['content'] of the complete message
RECURSIVE Content(_)
Content(cs) == IF cs = <<>> THEN "" ELSE Head(cs) \o Content(Tail(cs))

\* the exception analyze_with_ollama raises for the one the chat call raised
ChatError(failure) ==
    CASE failure = "RequestError" ->
            Exc("RequestError",
                "Ollama request failed: must provide a model. Make sure Ollama is running "
                \o "and the model 'llama3' is available.")
      [] failure = "ResponseError" ->
            Exc("ResponseError", "Ollama response error: model 'llama3' not found")
      [] OTHER ->
            Exc("Exception",
                "Unexpected error communicating with Ollama: Failed to connect to Ollama.")

Out(text) == [to |-> "stdout", text |-> text]
Err(text) == [to |-> "stderr", text |-> text]

TipLines ==
    <<Err("Tip: Make sure Ollama is running. Start it with: ollama serve"),
      Err("Tip: Make sure the model 'llama3' is available. Pull it with: ollama pull llama3")>>

\* the except clauses of main of entry point e: the lines printed for e's
\* exception exc, before sys.exit(1)
Handler(e, exc) ==
    CASE exc.type = "RequestException" ->
            <<Err((IF e = "builtwith_client" THEN "Error: " ELSE "Error fetching BuiltWith data: ")
                  \o exc.msg)>>
      [] e = "builtwith_client" /\ exc.type = "JSONDecodeError" ->
            <<Err("Error: Invalid JSON response from API: " \o exc.msg)>>
      [] e = "builtwith_ollama" /\ exc.type = "RequestError" ->
            <<Err("Error: " \o exc.msg)>> \o TipLines
      [] e = "builtwith_ollama" /\ exc.type = "ResponseError" -> <<Err("Error: " \o exc.msg)>>
      [] e = "builtwith_excel"
         /\ exc.type \in {"FileNotFoundError", "ValueError", "JSONDecodeError"} ->
            <<Err("Error: " \o exc.msg)>>
      [] OTHER -> <<Err("Unexpected error: " \o exc.msg)>>

InitRun ==
    /\ pc = "start"
    /\ entry \in {"builtwith_client", "builtwith_ollama", "builtwith_excel", "main"}
    /\ args \in Arguments(entry)
    /\ BUILTWITH_API_KEY \in {JNull, JStr("key")}
    /\ zero_pad_year \in BOOLEAN
    /\ llm_analysis = JNull /\ full_response = "" /\ chunks = <<>> /\ workbook = <<>>
    /\ trace = <<>> /\ report = <<>> /\ exit_status = JNull
    /\ NoExtract /\ NoRow /\ NoTimestamp /\ NoShapes

\* what no step of an invocation changes
fixedVars == <<zero_pad_year, rowVars, timestampVars, shapeVars, entry, args, BUILTWITH_API_KEY>>

\* Finish with the status left out of sys.exit
FinishWithoutStatus(status, lines) ==
    /\ pc' = "exit"
    /\ exit_status' = JInt(0)
    /\ report' = report \o lines

\* the process ends with the status, having printed the lines
Finish(status, lines) ==
    /\ pc' = "exit"
    /\ exit_status' = JInt(status)
    /\ report' = report \o lines

\* the run goes on at position p, having printed the lines
Goto(p, lines) ==
    /\ pc' = p
    /\ report' = report \o lines
    /\ UNCHANGED exit_status

\* the import of config and the validation of the arguments
Start ==
    /\ pc = "start"
    /\ IF ~Truthy(BUILTWITH_API_KEY)
       THEN Finish(1, <<Err("ValueError: BUILTWITH_API_KEY not found in environment variables.")>>)
       ELSE IF entry = "builtwith_excel" /\ ~Truthy(args.domain) /\ ~Truthy(args.json)
       THEN Finish(2, <<Err("error: Either --domain or --json must be provided")>>)
       ELSE IF entry = "builtwith_excel" /\ Truthy(args.json)
       THEN Goto("load", <<Out("Loading BuiltWith data from: " \o args.json.s)>>)
       ELSE IF Strip(args.domain.s) = ""
       THEN Finish(1, <<Err("Error: Domain cannot be empty.")>>)
       ELSE Goto("fetch", <<Out("Querying BuiltWith API for domain: " \o Strip(args.domain.s))>>)
    /\ UNCHANGED <<extractVars, llm_analysis, full_response, chunks, workbook, trace, fixedVars>>

\* Fetched with the analysis requested whether or not the fetch failed
FetchedRegardless(r, has) ==
    /\ builtwith_data' = (IF r.ok THEN r.val ELSE JNull)
    /\ IF entry \in {"builtwith_client", "builtwith_excel"}
       THEN Finish(IF r.ok THEN 0 ELSE 1, <<>>)
       ELSE Goto("analyze", IF r.ok THEN <<>> ELSE Handler(entry, r.exc))

\* main once get_builtwith_data or load_json_file returned or raised r, up to
\* the next call of a service
Fetched(r, has) ==
    IF ~r.ok THEN Finish(1, Handler(entry, r.exc)) /\ UNCHANGED builtwith_data
    ELSE /\ builtwith_data' = r.val
         /\ CASE entry = "builtwith_client" -> Finish(0, <<Out("<the document>")>>)
              [] entry = "builtwith_excel" -> Goto("export", <<>>)
              [] ~has.ok \/ (has.val /\ r.val.t # "dict") ->
                    Finish(1, Handler(entry, Exc("TypeError", "TypeError")))
              [] OTHER ->
                    Goto("analyze",
                         (IF has.val
                          THEN <<Out("BuiltWith API returned errors:"), Out("<the errors>"),
                                 Out("Note: Analysis will still proceed with available data.")>>
                          ELSE <<>>)
                         \o (IF entry = "main" THEN <<Out("Analyzing results with Ollama...")>>
                             ELSE <<>>))

\* the request to the profiling API
Fetch ==
    /\ pc = "fetch"
    /\ \E response \in Responses :
         /\ trace' = Append(trace, [event |-> "profile-request", outcome |-> response])
         /\ Fetched(get_builtwith_data(entry, Strip(args.domain.s), response),
                    PyIn("Errors", response.body))
    /\ UNCHANGED <<technology_data, llm_analysis, full_response, chunks, workbook, fixedVars>>

\* builtwith_excel with --json: the file is read in place of the request; open
\* and json.load give a decoded document or raise
Load ==
    /\ pc = "load"
    /\ \E file \in {[kind |-> "ok", status |-> 0, body |-> d] : d \in RunDocuments}
                   \cup {[kind |-> k, status |-> 0, body |-> JNull] :
                           k \in {"FileNotFoundError", "JSONDecodeError"}} :
         /\ trace' = Append(trace, [event |-> "file-read", outcome |-> file])
         /\ Fetched(load_json_file(args.json.s, file), Ok(FALSE))
    /\ UNCHANGED <<technology_data, llm_analysis, full_response, chunks, workbook, fixedVars>>

\* Analyzed with a failed chat request made again
AnalyzedWithRetry(r) ==
    IF r.ok
    THEN /\ llm_analysis' = JStr(r.val)
         /\ IF entry = "main" /\ args.excel THEN Goto("export", <<>>) ELSE Finish(0, <<>>)
    ELSE Goto("analyze", <<>>) /\ UNCHANGED llm_analysis

\* main once analyze_with_ollama returned or raised r, up to the export
Analyzed(r) ==
    CASE entry = "builtwith_ollama" /\ r.ok ->
            /\ llm_analysis' = JStr(r.val)
            /\ Finish(0, IF args.stream THEN <<>> ELSE <<Out("Ollama Analysis:"), Out(r.val)>>)
      [] entry = "builtwith_ollama" ->
            Finish(1, Handler(entry, r.exc)) /\ UNCHANGED llm_analysis
      [] r.ok ->
            /\ llm_analysis' = JStr(r.val)
            /\ IF args.excel
               THEN Goto("export",
                         IF args.stream THEN <<>> ELSE <<Out("Ollama Analysis:"), Out(r.val)>>)
               ELSE Finish(0, IF args.stream THEN <<>> ELSE <<Out("Ollama Analysis:"), Out(r.val)>>)
      [] OTHER ->
            /\ UNCHANGED llm_analysis
            /\ IF args.excel
               THEN Goto("export",
                         <<Err("Warning: Could not analyze with Ollama: " \o r.exc.msg),
                           Err("Continuing with Excel export without Ollama analysis...")>>)
               ELSE Finish(1, <<Err("Warning: Could not analyze with Ollama: " \o r.exc.msg)>>
                              \o TipLines)

\* analyze_with_ollama: the request to the chat service; without streaming
\* the call returns or raises at once
Analyze ==
    /\ pc = "analyze"
    /\ \E reply \in ChatReplies :
         /\ trace' = Append(trace, [event |-> "chat-request", outcome |-> reply])
         /\ IF args.stream
            THEN /\ chunks' = reply.chunks
                 /\ full_response' = ""
                 /\ Goto("stream", <<Out("Analyzing with Ollama...")>>)
                 /\ UNCHANGED llm_analysis
            ELSE /\ Analyzed(IF reply.failure = "" THEN Ok(Content(reply.chunks))
                             ELSE Raise(ChatError(reply.failure)))
                 /\ UNCHANGED <<chunks, full_response>>
    /\ UNCHANGED <<extractVars, workbook, fixedVars>>

\* analyze_with_ollama: one turn of the loop over the streamed chunks, or its
\* end when no chunk is left
StreamChunk ==
    /\ pc = "stream"
    /\ IF chunks # <<>>
       THEN /\ full_response' = Accumulate(full_response, Head(chunks))
            /\ chunks' = Tail(chunks)
            /\ Goto("stream", <<Out(Head(chunks))>>)
            /\ UNCHANGED llm_analysis
       ELSE /\ Analyzed(IF trace[Len(trace)].outcome.failure = "" THEN Ok(full_response)
                        ELSE Raise(ChatError(trace[Len(trace)].outcome.failure)))
            /\ UNCHANGED <<chunks, full_response>>
    /\ UNCHANGED <<extractVars, workbook, trace, fixedVars>>

\* the lines that close a run that wrote the spreadsheet
Summary(records, analysis) ==
    <<Out("Creating Excel file"), Out("Successfully created Excel file"),
      Out("  - Technology rows: " \o NatToStr(Len(records)))>>
    \o (IF entry = "main"
        THEN <<Out("  - Ollama analysis appended: "
                   \o (IF Truthy(analysis) THEN "Yes" ELSE "No (Ollama unavailable)"))>>
        ELSE IF Truthy(analysis) THEN <<Out("  - LLM analysis included: Yes")>> ELSE <<>>)

\* main from extract_technology_data, which returned or raised t, to the end
Exported(t) ==
    /\ technology_data' = t
    /\ IF ~t.ok
       THEN /\ Finish(1, <<Out("Extracting technology stack data...")>>
                          \o Handler(entry, Exc(t.exc, t.exc)))
            /\ UNCHANGED <<llm_analysis, workbook, trace>>
       ELSE /\ trace' = Append(trace, [event |-> "file-write", outcome |-> JNull])
            /\ IF entry = "builtwith_excel"
               THEN /\ llm_analysis' = (IF Truthy(args.llm) THEN args.llm ELSE JNull)
                    /\ workbook' = create_excel_from_data(t.val, llm_analysis')
                    /\ Finish(0,
                              <<Out("Extracting technology stack data...")>>
                              \o (IF t.val = <<>>
                                  THEN <<Err("Warning: No technology data found in BuiltWith response."),
                                         Out("The response structure may be different. "
                                             \o "Creating empty Excel with headers.")>>
                                  ELSE <<>>)
                              \o Summary(t.val, llm_analysis'))
               ELSE /\ workbook' = create_excel_with_ollama_append(t.val, llm_analysis)
                    /\ Finish(0, <<Out("Extracting technology stack data...")>>
                                  \o Summary(t.val, llm_analysis))
                    /\ UNCHANGED llm_analysis

\* the export of the spreadsheet
Export ==
    /\ pc = "export"
    /\ Exported(extract_technology_data(builtwith_data))
    /\ UNCHANGED <<builtwith_data, full_response, chunks, fixedVars>>

NextRun == Start \/ Fetch \/ Load \/ Analyze \/ StreamChunk \/ Export

SpecRun == InitRun /\ [][NextRun]_vars

----------------------------------------------------------------------------
(* Properties of the extractor on a decoded document (Spec).               *)

Extracted == pc = "extracted"

\* the document is a mapping with neither 'Results' nor 'result': it is itself
\* the sole result object
SoleResult ==
    /\ builtwith_data.t = "dict"
    /\ ~HasKey(builtwith_data, "Results") /\ ~HasKey(builtwith_data, "result")

\* the mapping without the keys of Dropped
Without(v, Dropped) == JDict(SelectSeq(v.d, LAMBDA p : p[1] \notin Dropped))

\* C1: extract_technology_data never raises: for every decoded document, of
\* whatever shape, it returns a (possibly empty) list of records.
C1_NeverRaises == Extracted => technology_data.ok

\* the result objects as the claim C2 selects them
ClaimedResultObjects(data) ==
    IF HasKey(data, "Results") /\ Lookup(data, "Results").t = "list"
    THEN Lookup(data, "Results").l
    ELSE IF HasKey(data, "result")
    THEN (IF Lookup(data, "result").t = "list" THEN Lookup(data, "result").l
          ELSE IF Lookup(data, "result").t = "dict" THEN <<Lookup(data, "result")>>
          ELSE <<>>)
    ELSE <<data>>

\* C2 as stated: the result objects are the elements of 'Results' if that key is
\* present and its value is a sequence; otherwise, if 'result' is present, its
\* elements (a sequence) or the value itself (a mapping); otherwise the whole
\* document.  A 'Results' value that is no sequence leads to 'result'.
C2_AsStated ==
    Extracted => technology_data = RowsOfResults(ClaimedResultObjects(builtwith_data), 1, <<>>)

\* the value of the first of 'Results', 'result' that is present as a key,
\* whatever its type, else the document
SelectedByPresence(data) ==
    IF HasKey(data, "Results") THEN Lookup(data, "Results")
    ELSE IF HasKey(data, "result") THEN Lookup(data, "result")
    ELSE data

\* its elements when it is a sequence, itself when it is a mapping, nothing
\* otherwise
ResultObjectsOf(v) ==
    IF v.t = "list" THEN v.l ELSE IF v.t = "dict" THEN <<v>> ELSE <<>>

\* C2 amended: the resolver selects by key presence alone.  If 'Results' is
\* present its value is used whatever its type; otherwise if 'result' is present
\* its value is used; otherwise the whole document.  The selected value gives its
\* elements when it is a sequence, itself when it is a mapping and no result
\* object otherwise: a 'Results' value that is no sequence is never resolved
\* through 'result'.
C2_SelectsByPresence ==
    Extracted =>
        technology_data
            = RowsOfResults(ResultObjectsOf(SelectedByPresence(builtwith_data)), 1, <<>>)

\* 'Results' holds no sequence and no mapping while 'result' holds result
\* objects with technologies: the extractor returned no record
C2_Witness ==
    /\ Extracted
    /\ HasKey(builtwith_data, "Results")
    /\ Lookup(builtwith_data, "Results").t \notin {"list", "dict"}
    /\ HasKey(builtwith_data, "result")
    /\ Lookup(builtwith_data, "result").t = "list"
    /\ RowsOfResults(Lookup(builtwith_data, "result").l, 1, <<>>).ok
    /\ RowsOfResults(Lookup(builtwith_data, "result").l, 1, <<>>).val # <<>>
    /\ technology_data = Ok(<<>>)

\* C3: one branch per result object, by key presence, 'Paths' before
\* 'Technologies' before 'Categories'.  With 'Paths' present the outcome is that
\* of the result object without 'Technologies' and 'Categories', and it is no
\* record when 'Paths' is empty or no path entry has 'Technologies'; with
\* 'Technologies' present and 'Paths' absent it is that of the result object
\* without 'Categories'; with none of the three keys it is no record.
C3_StrictPriority ==
    (Extracted /\ SoleResult) =>
        /\ HasKey(builtwith_data, "Paths") =>
              /\ technology_data
                    = extract_technology_data(
                          Without(builtwith_data, {"Technologies", "Categories"}))
              /\ (/\ Lookup(builtwith_data, "Paths").t = "list"
                  /\ \A i \in DOMAIN Lookup(builtwith_data, "Paths").l :
                        /\ Lookup(builtwith_data, "Paths").l[i].t = "dict"
                        /\ ~HasKey(Lookup(builtwith_data, "Paths").l[i], "Technologies"))
                 => technology_data = Ok(<<>>)
        /\ (~HasKey(builtwith_data, "Paths") /\ HasKey(builtwith_data, "Technologies")) =>
              technology_data
                  = extract_technology_data(Without(builtwith_data, {"Categories"}))
        /\ (/\ ~HasKey(builtwith_data, "Paths")
            /\ ~HasKey(builtwith_data, "Technologies")
            /\ ~HasKey(builtwith_data, "Categories")) => technology_data = Ok(<<>>)

\* 'Paths' is present and yields nothing while 'Technologies' and 'Categories'
\* hold technology entries: no record was returned
C3_Witness ==
    /\ Extracted /\ SoleResult
    /\ HasKey(builtwith_data, "Paths")
    /\ Lookup(builtwith_data, "Paths").t = "list"
    /\ HasKey(builtwith_data, "Technologies")
    /\ Truthy(Lookup(builtwith_data, "Technologies"))
    /\ HasKey(builtwith_data, "Categories")
    /\ Truthy(Lookup(builtwith_data, "Categories"))
    /\ technology_data = Ok(<<>>)

\* the sequences of seqs joined in order
RECURSIVE Joined(_)
Joined(seqs) == IF seqs = <<>> THEN <<>> ELSE Head(seqs) \o Joined(Tail(seqs))

\* the technology entries under 'Technologies' of holder, each with the
\* category override it is read with; none when holder is no mapping holding a
\* list there
EntriesUnder(holder, override) ==
    IF holder.t = "dict" /\ HasKey(holder, "Technologies")
          /\ Lookup(holder, "Technologies").t = "list"
    THEN [i \in DOMAIN Lookup(holder, "Technologies").l |->
             <<Lookup(holder, "Technologies").l[i], override>>]
    ELSE <<>>

\* the entries of the branch selected for one result object, in document order
EntriesOfResult(result) ==
    IF result.t # "dict" THEN <<>>
    ELSE IF HasKey(result, "Paths")
    THEN (IF Lookup(result, "Paths").t # "list" THEN <<>>
          ELSE Joined([i \in DOMAIN Lookup(result, "Paths").l |->
                          EntriesUnder(Lookup(result, "Paths").l[i], JNull)]))
    ELSE IF HasKey(result, "Technologies") THEN EntriesUnder(result, JNull)
    ELSE IF HasKey(result, "Categories") /\ Lookup(result, "Categories").t = "dict"
    THEN Joined([i \in DOMAIN Lookup(result, "Categories").d |->
                    EntriesUnder(Lookup(result, "Categories").d[i][2],
                                 JStr(Lookup(result, "Categories").d[i][1]))])
    ELSE <<>>

\* the entries of a document: those of its result objects, in list order
EntriesOfDocument(data) ==
    Joined([i \in DOMAIN ResultObjectsOf(SelectedByPresence(data)) |->
               EntriesOfResult(ResultObjectsOf(SelectedByPresence(data))[i])])

\* C18: the extractor emits exactly one record per technology entry of the
\* branch selected for each result object, without filtering or deduplication,
\* in document order: results in list order, within a result the path entries
\* (or categories) in their order, within each the technology entries in their
\* order.  A path entry without 'Technologies', or a category whose data is no
\* mapping containing 'Technologies', contributes no record and does not stop
\* the entries after it from being processed.
C18_OneRecordPerEntry ==
    (Extracted /\ technology_data.ok) =>
        /\ Len(technology_data.val) = Len(EntriesOfDocument(builtwith_data))
        /\ \A i \in DOMAIN technology_data.val :
              technology_data.val[i]
                  = _create_tech_row(EntriesOfDocument(builtwith_data)[i][1], JNull,
                                     EntriesOfDocument(builtwith_data)[i][2]).val

\* a path entry without 'Technologies' came before a path entry with two
\* technology entries: the records of both were emitted, in their order
C18_Witness ==
    /\ Extracted /\ technology_data.ok /\ SoleResult
    /\ HasKey(builtwith_data, "Paths")
    /\ Lookup(builtwith_data, "Paths").t = "list"
    /\ Len(Lookup(builtwith_data, "Paths").l) = 2
    /\ Lookup(builtwith_data, "Paths").l[1].t = "dict"
    /\ ~HasKey(Lookup(builtwith_data, "Paths").l[1], "Technologies")
    /\ Len(EntriesUnder(Lookup(builtwith_data, "Paths").l[2], JNull)) = 2
    /\ Len(technology_data.val) = 2
    /\ technology_data.val[1] # technology_data.val[2]

----------------------------------------------------------------------------
(* Properties of the three shapes (SpecShapes).                            *)

\* the value of field k of a record
RowGet(r, k) == r[CHOOSE i \in DOMAIN r : r[i][1] = k][2]

\* the records of the entries placed under the category key
CategoryRows == shape_rows["Categories"]

\* C4 as stated: every record produced through the 'Categories' branch for a
\* category key K has 'Category' equal to K, for every category name K and
\* whatever fields the entry carries.
C4_AsStated ==
    CategoryRows.ok =>
        \A i \in DOMAIN CategoryRows.val :
            RowGet(CategoryRows.val[i], "Category") = JStr(category_name)

\* C4 amended: for every non-empty category name K, every record produced
\* through the 'Categories' branch has 'Category' equal to K, whatever category,
\* name or subcategory fields the entry carries.  Under the empty key '' the
\* override is not applied: the record is the one the entry gets without a
\* category key, its 'Category' coming from the entry's own fields.
C4_NonEmptyKey ==
    CategoryRows.ok =>
        /\ Len(CategoryRows.val) = Len(techs)
        /\ \A i \in DOMAIN CategoryRows.val :
              IF category_name # ""
              THEN RowGet(CategoryRows.val[i], "Category") = JStr(category_name)
              ELSE CategoryRows.val[i] = _create_tech_row(techs[i], JNull, JNull).val

\* an entry with a 'Category' of its own got the category key instead
C4_Witness ==
    /\ CategoryRows.ok
    /\ category_name # ""
    /\ \E i \in DOMAIN techs :
          /\ HasKey(techs[i], "Category")
          /\ Truthy(Lookup(techs[i], "Category"))
          /\ Lookup(techs[i], "Category") # JStr(category_name)
          /\ RowGet(CategoryRows.val[i], "Category") = JStr(category_name)

----------------------------------------------------------------------------
(* Properties of the field normalizer on one entry (SpecRow).              *)

RowDone == pc = "row-done"

\* some candidate key of keys holds a truthy value in t
SomeTruthy(t, keys) ==
    \E i \in 1..Len(keys) : HasKey(t, keys[i]) /\ Truthy(Lookup(t, keys[i]))

\* the value of the first candidate key, in the order of keys, that is present
\* in t with a truthy value; default when there is none
FirstTruthy(t, keys, default) ==
    IF SomeTruthy(t, keys)
    THEN Lookup(t, keys[CHOOSE i \in 1..Len(keys) :
                          /\ HasKey(t, keys[i]) /\ Truthy(Lookup(t, keys[i]))
                          /\ \A j \in 1..(i - 1) :
                                ~(HasKey(t, keys[j]) /\ Truthy(Lookup(t, keys[j])))])
    ELSE default

\* every candidate key of keys is missing from t or holds null
AllMissing(t, keys) ==
    \A i \in 1..Len(keys) : HasKey(t, keys[i]) => Lookup(t, keys[i]) = JNull

\* the value found under the candidate keys: the first truthy one, else the
\* first that is neither null nor ''; '' when there is none
FoundUnder(t, keys) ==
    IF SomeTruthy(t, keys) THEN FirstTruthy(t, keys, JStr(""))
    ELSE IF \E i \in 1..Len(keys) :
                HasKey(t, keys[i]) /\ Lookup(t, keys[i]) \notin {JNull, JStr("")}
    THEN Lookup(t, keys[CHOOSE i \in 1..Len(keys) :
                          /\ HasKey(t, keys[i])
                          /\ Lookup(t, keys[i]) \notin {JNull, JStr("")}
                          /\ \A j \in 1..(i - 1) :
                                ~(/\ HasKey(t, keys[j])
                                  /\ Lookup(t, keys[j]) \notin {JNull, JStr("")})])
    ELSE JStr("")

\* text s matches none of the six patterns
MatchesNoPattern(s) == \A i \in 1..Len(formats) : ~Strptime(s, formats[i]).ok

\* a count the claim C5 lets coerce to 0: falsy, or not a number (a text that is
\* no integer, a list, a mapping)
CoercesToZero(v) == ~Truthy(v) \/ ~PyInt(v).ok

\* C5: numeric coercion never raises: for every value of the count candidate
\* keys, including non-numeric text such as "abc" or "12.5", a list or a
\* mapping, the record is built, and a non-numeric or falsy value gives 0.
C5_CoercionNeverRaises ==
    (RowDone /\ tech.t = "dict") =>
        /\ row.ok
        /\ CoercesToZero(FirstTruthy(tech, LiveKeys, JInt(0)))
              => RowGet(row.val, "Live Count") = JInt(0)
        /\ CoercesToZero(FirstTruthy(tech, DeadKeys, JInt(0)))
              => RowGet(row.val, "Dead Count") = JInt(0)

\* the count of the first truthy candidate, as an integer
CountOf(t, keys) ==
    IF SomeTruthy(t, keys) THEN JInt(PyInt(FirstTruthy(t, keys, JInt(0))).val) ELSE JInt(0)

\* C6: each field takes the value of the first candidate key that is present
\* with a truthy value, in the documented priority order: 'Category' from the
\* override, 'Category', 'category', then 'Name', 'name', 'Technology';
\* 'Subcategory' from 'SubCategory', 'Subcategory', 'subcategory'; the counts
\* from 'LiveCount', 'live_count', 'Live' and 'DeadCount', 'dead_count', 'Dead',
\* converted to integers ("12" gives 12); the raw timestamps from 'Latest',
\* 'latest', 'LatestTimestamp' and 'Oldest', 'oldest', 'OldestTimestamp'.
C6_CandidatePriority ==
    (RowDone /\ row.ok) =>
        /\ RowGet(row.val, "Category")
              = IF Truthy(category_override) THEN category_override
                ELSE FirstTruthy(tech, <<"Category", "category", "Name", "name", "Technology">>,
                                 JStr(""))
        /\ RowGet(row.val, "Subcategory")
              = FirstTruthy(tech, <<"SubCategory", "Subcategory", "subcategory">>, JStr(""))
        /\ RowGet(row.val, "Live Count")
              = CountOf(tech, <<"LiveCount", "live_count", "Live">>)
        /\ RowGet(row.val, "Dead Count")
              = CountOf(tech, <<"DeadCount", "dead_count", "Dead">>)
        /\ FirstTruthy(tech, <<"LiveCount", "live_count", "Live">>, JInt(0)) = JStr("12")
              => RowGet(row.val, "Live Count") = JInt(12)
        /\ FirstTruthy(tech, <<"DeadCount", "dead_count", "Dead">>, JInt(0)) = JStr("12")
              => RowGet(row.val, "Dead Count") = JInt(12)
        /\ RowGet(row.val, "Latest Timestamp")
              = FirstTruthy(tech, <<"Latest", "latest", "LatestTimestamp">>, JStr(""))
        /\ RowGet(row.val, "Oldest Timestamp")
              = FirstTruthy(tech, <<"Oldest", "oldest", "OldestTimestamp">>, JStr(""))

\* 'LiveCount' is present with a falsy value that is not null and 'live_count'
\* holds "12": the record counts 12
C6_Witness ==
    /\ RowDone /\ row.ok
    /\ HasKey(tech, "LiveCount")
    /\ Lookup(tech, "LiveCount") # JNull
    /\ ~Truthy(Lookup(tech, "LiveCount"))
    /\ HasKey(tech, "live_count")
    /\ Lookup(tech, "live_count") = JStr("12")
    /\ RowGet(row.val, "Live Count") = JInt(12)

\* the counts of the entry convert without raising
CountsConvert ==
    /\ IntOrZero(FirstTruthy(tech, LiveKeys, JInt(0))).ok
    /\ IntOrZero(FirstTruthy(tech, DeadKeys, JInt(0))).ok

\* C7 as stated: timestamp reformatting never raises and never alters the raw
\* field: for every value found under a timestamp candidate key the record's
\* 'Latest Timestamp' / 'Oldest Timestamp' equals that value verbatim, and when
\* the value matches none of the six patterns the derived 'Latest_Time' /
\* 'Oldest_Time' is ''.
C7_AsStated ==
    (RowDone /\ tech.t = "dict" /\ CountsConvert) =>
        /\ row.ok
        /\ RowGet(row.val, "Latest Timestamp") = FoundUnder(tech, LatestKeys)
        /\ RowGet(row.val, "Oldest Timestamp") = FoundUnder(tech, OldestKeys)
        /\ MatchesNoPattern(PyStr(FoundUnder(tech, LatestKeys)))
              => RowGet(row.val, "Latest_Time") = JStr("")
        /\ MatchesNoPattern(PyStr(FoundUnder(tech, OldestKeys)))
              => RowGet(row.val, "Oldest_Time") = JStr("")

\* C7 amended: timestamp reformatting never raises and never alters the raw
\* field: for every truthy value found under a timestamp candidate key (the
\* first one in priority order) the raw field equals that value verbatim, text
\* or not; when every candidate is missing or falsy (null, '', 0, false, an
\* empty list or mapping) the raw field is ''.  When the raw value, read as
\* text, matches none of the six patterns the derived field is ''; otherwise it
\* is not.
C7_TruthyVerbatim ==
    (RowDone /\ tech.t = "dict" /\ CountsConvert) =>
        /\ row.ok
        /\ RowGet(row.val, "Latest Timestamp") = FirstTruthy(tech, LatestKeys, JStr(""))
        /\ RowGet(row.val, "Oldest Timestamp") = FirstTruthy(tech, OldestKeys, JStr(""))
        /\ \A f \in {<<"Latest Timestamp", "Latest_Time">>, <<"Oldest Timestamp", "Oldest_Time">>} :
              /\ RowGet(row.val, f[2]).t = "str"
              /\ IF MatchesNoPattern(PyStr(RowGet(row.val, f[1])))
                 THEN RowGet(row.val, f[2]) = JStr("")
                 ELSE RowGet(row.val, f[2]) # JStr("")

\* 'latest' holds "not-a-date" behind a 'Latest' that is present and falsy: the
\* raw field is "not-a-date" and the derived field is ''
C7_Witness ==
    /\ RowDone /\ row.ok
    /\ HasKey(tech, "Latest") /\ ~Truthy(Lookup(tech, "Latest"))
    /\ HasKey(tech, "latest") /\ Lookup(tech, "latest") = JStr("not-a-date")
    /\ RowGet(row.val, "Latest Timestamp") = JStr("not-a-date")
    /\ RowGet(row.val, "Latest_Time") = JStr("")

\* the fields of a record as the claim C9 lists them
EightFields ==
    <<"Category", "Subcategory", "Live Count", "Dead Count",
      "Latest Timestamp", "Oldest Timestamp", "Latest_Time", "Oldest_Time">>

\* C9: every record has exactly the eight fields, in the order 'Category',
\* 'Subcategory', 'Live Count', 'Dead Count', 'Latest Timestamp', 'Oldest
\* Timestamp', 'Latest_Time', 'Oldest_Time'; no field is absent or null; a field
\* whose candidate keys are all missing or null holds its default: '' for the
\* text fields, 0 for the counts.
C9_EightFields ==
    (RowDone /\ row.ok) =>
        /\ Len(row.val) = 8
        /\ \A i \in 1..8 : row.val[i][1] = EightFields[i] /\ row.val[i][2].t \notin {"null", "absent"}
        /\ RowGet(row.val, "Live Count").t = "int"
        /\ RowGet(row.val, "Dead Count").t = "int"
        /\ (/\ category_override = JNull
            /\ AllMissing(tech, <<"Category", "category", "Name", "name", "Technology">>))
              => RowGet(row.val, "Category") = JStr("")
        /\ AllMissing(tech, <<"SubCategory", "Subcategory", "subcategory">>)
              => RowGet(row.val, "Subcategory") = JStr("")
        /\ AllMissing(tech, <<"LiveCount", "live_count", "Live">>)
              => RowGet(row.val, "Live Count") = JInt(0)
        /\ AllMissing(tech, <<"DeadCount", "dead_count", "Dead">>)
              => RowGet(row.val, "Dead Count") = JInt(0)
        /\ AllMissing(tech, <<"Latest", "latest", "LatestTimestamp">>)
              => /\ RowGet(row.val, "Latest Timestamp") = JStr("")
                 /\ RowGet(row.val, "Latest_Time") = JStr("")
        /\ AllMissing(tech, <<"Oldest", "oldest", "OldestTimestamp">>)
              => /\ RowGet(row.val, "Oldest Timestamp") = JStr("")
                 /\ RowGet(row.val, "Oldest_Time") = JStr("")

\* an entry whose subcategory keys all hold null, with no key of any other
\* field: every field of its record is the default
C9_Witness ==
    /\ RowDone /\ row.ok
    /\ category_override = JNull
    /\ tech.t = "dict" /\ Len(tech.d) = 3
    /\ \A i \in 1..3 : tech.d[i] = <<SubcategoryKeys[i], JNull>>
    /\ row.val = [i \in 1..8 |-> <<EightFields[i], IF i \in {3, 4} THEN JInt(0) ELSE JStr("")>>]

----------------------------------------------------------------------------
(* Properties of the timestamp normalizer (SpecTimestamp).                 *)

Formatted == pc \in {"formatted", "reformatted"}

\* the six patterns in the order the claim C8 lists them
ListedPatterns ==
    << <<"%Y", "-", "%m", "-", "%d", " ", "%H", ":", "%M", ":", "%S">>,     \* Y-M-D h:m:s
       <<"%Y", "-", "%m", "-", "%d", "T", "%H", ":", "%M", ":", "%S">>,     \* Y-M-DTh:m:s
       <<"%Y", "-", "%m", "-", "%d", "T", "%H", ":", "%M", ":", "%S", "Z">>, \* Y-M-DTh:m:sZ
       <<"%Y", "-", "%m", "-", "%d">>,                                      \* Y-M-D
       <<"%m", "/", "%d", "/", "%Y">>,                                      \* M/D/Y
       <<"%d", "/", "%m", "/", "%Y">> >>                                    \* D/M/Y

\* pattern i is the first of the listed patterns that parses s entirely
FirstListed(s, i) ==
    /\ Strptime(s, ListedPatterns[i]).ok
    /\ \A j \in 1..(i - 1) : ~Strptime(s, ListedPatterns[j]).ok

\* text is dt written as 'YYYY-MM-DD HH:MM:SS'
Renders(text, dt) ==
    /\ Len(text) = 19
    /\ \A i \in (1..19) \ {5, 8, 11, 14, 17} : IsDigit(CharAt(text, i))
    /\ CharAt(text, 5) = "-" /\ CharAt(text, 8) = "-" /\ CharAt(text, 11) = " "
    /\ CharAt(text, 14) = ":" /\ CharAt(text, 17) = ":"
    /\ DigitsVal(SubSeq(text, 1, 4)) = dt.year
    /\ DigitsVal(SubSeq(text, 6, 7)) = dt.month
    /\ DigitsVal(SubSeq(text, 9, 10)) = dt.day
    /\ DigitsVal(SubSeq(text, 12, 13)) = dt.hour
    /\ DigitsVal(SubSeq(text, 15, 16)) = dt.minute
    /\ DigitsVal(SubSeq(text, 18, 19)) = dt.second

RendersYear(text, dt) ==
    /\ Len(text) >= 16
    /\ Renders(ZeroFill(text, 19), dt)
    /\ Len(text) = 19 \/ (dt.year < 1000 /\ SubSeq(text, 1, Len(text) - 15) = NatToStr(dt.year))

C19_Idempotent ==
    (pc = "reformatted" /\ timestamp_str.t = "str" /\ formatted # "")
        => reformatted = formatted

----------------------------------------------------------------------------
(* One list of entries in the three shapes (SpecShapes).                   *)

AllShapesRan == \A s \in Shapes : shape_rows[s] # NotRun

\* the fields other than 'Category'
OtherFields ==
    <<"Subcategory", "Live Count", "Dead Count",
      "Latest Timestamp", "Oldest Timestamp", "Latest_Time", "Oldest_Time">>

\* C10: the same ordered list of technology entries placed as (a) the
\* 'Technologies' of one path entry, (b) the top-level 'Technologies' and (c) the
\* 'Technologies' of one category gives record sequences of the same length and
\* order, record i being the one of entry i, with identical 'Subcategory',
\* counts, raw and derived timestamps; 'Category' is the same in (a) and (b) and
\* may differ only in (c), where it comes from the category key.  An entry that
\* makes one shape fail makes all three fail.
C10_ShapesAgree ==
    AllShapesRan =>
        /\ \A s \in Shapes : shape_rows[s].ok = shape_rows["Technologies"].ok
        /\ shape_rows["Technologies"].ok =>
              /\ \A s \in Shapes : Len(shape_rows[s].val) = Len(techs)
              /\ shape_rows["Paths"].val = shape_rows["Technologies"].val
              /\ \A i \in 1..Len(techs) :
                    /\ shape_rows["Technologies"].val[i]
                          = _create_tech_row(techs[i], JNull, JNull).val
                    /\ \A k \in 1..Len(OtherFields) :
                          RowGet(shape_rows["Categories"].val[i], OtherFields[k])
                              = RowGet(shape_rows["Technologies"].val[i], OtherFields[k])
                    /\ RowGet(shape_rows["Categories"].val[i], "Category")
                          \in {JStr(category_name),
                               RowGet(shape_rows["Technologies"].val[i], "Category")}

\* two different entries went through the three shapes, and the category key
\* replaced their 'Category' in shape (c) only
C10_Witness ==
    /\ AllShapesRan
    /\ \A s \in Shapes : shape_rows[s].ok
    /\ Len(techs) = 2 /\ techs[1] # techs[2]
    /\ shape_rows["Technologies"].val[1] # shape_rows["Technologies"].val[2]
    /\ \A i \in 1..2 :
          /\ RowGet(shape_rows["Categories"].val[i], "Category") = JStr(category_name)
          /\ RowGet(shape_rows["Paths"].val[i], "Category") # JStr(category_name)

----------------------------------------------------------------------------
(* Properties of the entry points (SpecRun).                               *)

\* the invocation has ended
Exited == pc = "exit"

\* main.py wrote the spreadsheet with analysis text that is not empty
AppendedAnalysis ==
    Exited /\ entry = "main" /\ workbook # <<>> /\ Truthy(llm_analysis)

\* the lines of the analysis that are not blank, in order
NonBlankLines == SelectSeq(SplitLines(llm_analysis.s), LAMBDA line : Strip(line) # "")

\* the rows of the main sheet
MainRows == workbook[1].rows

\* the main sheet begins with the records, in order
RecordsFirst ==
    /\ Len(MainRows) >= Len(technology_data.val)
    /\ \A i \in DOMAIN technology_data.val :
          \A c \in DOMAIN required_columns :
             MainRows[i][c] = RowGet(technology_data.val[i], required_columns[c])

\* after the records come the separator row and one row per line that is not
\* blank, each holding one of the texts Texts(line) in Subcategory and '' in
\* every other column
SeparatorAndLines(Texts(_)) ==
    /\ Len(MainRows) = Len(technology_data.val) + 1 + Len(NonBlankLines)
    /\ MainRows[Len(technology_data.val) + 1]
         = <<JStr("---"), JStr("Ollama Analysis"), JStr(""), JStr(""), JStr(""), JStr(""),
             JStr(""), JStr("")>>
    /\ \A k \in DOMAIN NonBlankLines :
          /\ MainRows[Len(technology_data.val) + 1 + k][2] \in Texts(NonBlankLines[k])
          /\ \A c \in (DOMAIN required_columns) \ {2} :
                MainRows[Len(technology_data.val) + 1 + k][c] = JStr("")

LineOrStripped(line) == {JStr(line), JStr(Strip(line))}
StrippedLine(line) == {JStr(Strip(line))}

\* C16 as stated: create_excel_with_ollama_append, given N records and an
\* analysis text that is not empty, writes to the main sheet the N records in
\* order, then one separator row (Category "---", Subcategory "Ollama
\* Analysis", other fields empty), then exactly one row per non-blank line of
\* the analysis in line order, with the line text in Subcategory and all other
\* fields empty.  Violated by an analysis text all of whose lines are blank
\* ("  ", "\n\n"): nothing is appended, not even the separator row.
C16_AsStated ==
    AppendedAnalysis => (RecordsFirst /\ SeparatorAndLines(LineOrStripped))

\* C16 amended: given N records and an analysis text with at least one line that
\* is not blank, the main sheet holds the N records in order, then the separator
\* row, then one row per non-blank line in line order holding the line without
\* its leading and trailing whitespace in Subcategory and '' elsewhere; given an
\* analysis text that is not empty but has only blank lines, the main sheet
\* holds the N records and nothing else.
C16_SeparatorOnlyWithLines ==
    AppendedAnalysis =>
        /\ RecordsFirst
        /\ IF NonBlankLines # <<>> THEN SeparatorAndLines(StrippedLine)
           ELSE Len(MainRows) = Len(technology_data.val)

\* two records, then the separator, then the three non-blank lines of an
\* analysis that also has a blank line and a line with surrounding blanks
C16_Witness ==
    /\ AppendedAnalysis
    /\ Len(technology_data.val) = 2
    /\ Len(SplitLines(llm_analysis.s)) = 4
    /\ Len(NonBlankLines) = 3
    /\ \E k \in DOMAIN NonBlankLines : Strip(NonBlankLines[k]) # NonBlankLines[k]
    /\ Len(MainRows) = 6

\* the reply of the chat service to the request of this invocation
ChatReply == trace[CHOOSE i \in DOMAIN trace : trace[i].event = "chat-request"].outcome

\* analyze_with_ollama has returned
AnalysisReturned ==
    /\ pc \in {"export", "exit"}
    /\ \E i \in DOMAIN trace : trace[i].event = "chat-request"
    /\ ChatReply.failure = ""

\* C17: analyze_with_ollama returns the same text with and without streaming:
\* while streaming, the accumulated text followed by the chunks still to come is
\* the chunk contents joined in arrival order; the text returned, in either
\* mode, is the chunk contents joined in arrival order, which is the content of
\* the complete message; and that text is what main prints (builtwith_ollama)
\* or writes to the sheet 'LLM Analysis' and counts as appended (main.py).
C17_SameTextEitherWay ==
    /\ pc = "stream" => full_response \o Content(chunks) = Content(ChatReply.chunks)
    /\ AnalysisReturned =>
          /\ llm_analysis = JStr(Content(ChatReply.chunks))
          /\ (entry = "builtwith_ollama" /\ ~args.stream) =>
                report[Len(report)] = Out(Content(ChatReply.chunks))
          /\ (workbook # <<>> /\ Content(ChatReply.chunks) # "") =>
                /\ Len(workbook) = 2
                /\ workbook[2].rows = << <<JStr(Content(ChatReply.chunks))>> >>
                /\ report[Len(report)] = Out("  - Ollama analysis appended: Yes")

\* a streamed reply of three chunks has been accumulated and written
C17_Witness ==
    /\ AnalysisReturned
    /\ args.stream
    /\ Len(ChatReply.chunks) = 3
    /\ llm_analysis = JStr("a\n\n b \nc")
    /\ workbook # <<>>

\* a chat request was made and the chat call raised
AnalysisFailed ==
    /\ \E i \in DOMAIN trace : trace[i].event = "chat-request"
    /\ ChatReply.failure # ""

\* C11: in main.py, when the profiling fetch succeeded and the analysis step
\* failed: with --excel the run goes on, writes the spreadsheet with the
\* technology rows, no analysis rows and no analysis sheet, reports the analysis
\* as absent in the run summary and ends with status 0; without --excel it ends
\* with status 1 and writes no file.  Violated with --excel by a fetched
\* document on which extract_technology_data raises (a 'LiveCount' of "abc"):
\* the run ends with status 1, "Unexpected error", and no spreadsheet.
C11_AnalysisFailure ==
    (Exited /\ entry = "main" /\ AnalysisFailed) =>
        IF args.excel
        THEN /\ exit_status = JInt(0)
             /\ technology_data.ok
             /\ Len(workbook) = 1
             /\ workbook[1].name = "Technology Stack"
             /\ Len(workbook[1].rows) = Len(technology_data.val)
             /\ \A i \in DOMAIN technology_data.val :
                   \A c \in DOMAIN required_columns :
                      workbook[1].rows[i][c] = RowGet(technology_data.val[i], required_columns[c])
             /\ report[Len(report)] = Out("  - Ollama analysis appended: No (Ollama unavailable)")
        ELSE exit_status = JInt(1) /\ workbook = <<>>

\* the number of events of one kind made so far
Requests(event) == Cardinality({i \in DOMAIN trace : trace[i].event = event})

\* the request to the profiling API was made and failed
ProfileFailed ==
    \E i \in DOMAIN trace : trace[i].event = "profile-request" /\ trace[i].outcome.kind # "ok"

\* the domain argument is what the invocation fetches, and it is not blank
FetchesDomain ==
    /\ Truthy(BUILTWITH_API_KEY)
    /\ ~(entry = "builtwith_excel" /\ Truthy(args.json))
    /\ Truthy(args.domain)
    /\ Strip(args.domain.s) # ""

\* C12 as stated: every invocation of an entry point makes exactly one request
\* to the profiling API and at most one to the chat service, and a failed or
\* timed-out request is not retried and ends the invocation as a terminal
\* failure.  Violated by invocations that make no profiling request (blank
\* domain, builtwith_excel with --json, no API key) and by main.py with --excel,
\* where a failed chat request does not end the invocation as a failure.
C12_AsStated ==
    Exited =>
        /\ Requests("profile-request") = 1
        /\ Requests("chat-request") <= 1
        /\ (ProfileFailed \/ AnalysisFailed) => exit_status # JInt(0)

\* C12 amended: an invocation makes at most one request to the profiling API,
\* exactly one when it gets as far as fetching a non-blank domain and none when
\* the domain is blank, the API key is missing or builtwith_excel reads --json;
\* it makes at most one request to the chat service; a failed profiling
\* request is the last thing the invocation does and ends it with a non-zero
\* status; a failed chat request is not retried and ends the invocation with a
\* non-zero status, except in main.py with --excel, which goes on to the export.
C12_AtMostOnce ==
    /\ Requests("profile-request") <= 1
    /\ Requests("chat-request") <= 1
    /\ Exited => (Requests("profile-request") = 1 <=> FetchesDomain)
    /\ ProfileFailed => (Exited /\ exit_status # JInt(0) /\ Len(trace) = 1)
    /\ (Exited /\ AnalysisFailed /\ ~(entry = "main" /\ args.excel)) =>
          (exit_status # JInt(0) /\ trace[Len(trace)].event = "chat-request")
    /\ (AnalysisFailed /\ entry = "main" /\ args.excel /\ pc # "stream") =>
          (pc \in {"export", "exit"} /\ llm_analysis = JNull)

\* main.py with --excel ended with status 0 after one profiling request and
\* one chat request that failed
C12_Witness ==
    /\ Exited /\ entry = "main" /\ args.excel
    /\ AnalysisFailed
    /\ Requests("profile-request") = 1 /\ Requests("chat-request") = 1
    /\ exit_status = JInt(0)

\* the file named by --json could not be read or decoded
LoadFailed ==
    \E i \in DOMAIN trace : trace[i].event = "file-read" /\ trace[i].outcome.kind # "ok"

\* the entry point reads the domain argument (builtwith_excel does so only
\* without --json) and it is missing or blank after trimming
BlankDomain ==
    /\ ~(entry = "builtwith_excel" /\ Truthy(args.json))
    /\ (args.domain = JNull \/ Strip(args.domain.s) = "")

\* C13: an invocation of any of the four entry points that hits an
\* unrecoverable failure ends with a non-zero exit status: a failed request to
\* the profiling API (timeout, connection error, HTTP 401 and other error
\* statuses, a body that is not JSON), a --json file that is missing or not
\* JSON, a blank domain argument where the entry point reads it, a missing API
\* key, and a failed chat request where it is terminal (everywhere but main.py
\* with --excel).
C13_FailureExitsNonZero ==
    (Exited /\ (\/ ProfileFailed
                \/ LoadFailed
                \/ BlankDomain
                \/ ~Truthy(BUILTWITH_API_KEY)
                \/ (AnalysisFailed /\ ~(entry = "main" /\ args.excel))))
        => (exit_status = JInt(1) \/ exit_status = JInt(2))

\* builtwith_excel ended with status 1 on a --json file that is not JSON
C13_Witness ==
    /\ Exited /\ entry = "builtwith_excel"
    /\ \E i \in DOMAIN trace :
          trace[i].event = "file-read" /\ trace[i].outcome.kind = "JSONDecodeError"
    /\ exit_status = JInt(1)
    /\ report[Len(report)].to = "stderr"

\* the profiling API answered with the HTTP status
Answered(status) ==
    \E i \in DOMAIN trace :
        /\ trace[i].event = "profile-request"
        /\ trace[i].outcome.kind = "HTTPError"
        /\ trace[i].outcome.status = status

\* the last line printed names the text and is not the generic outcome
ReportedAs(text) ==
    /\ report[Len(report)].to = "stderr"
    /\ IsSubstring(text, report[Len(report)].text)
    /\ ~IsSubstring("equest failed", report[Len(report)].text)

\* C14: in every entry point that fetches from the profiling API, an HTTP 401
\* is reported as an authentication failure and an HTTP 404 as not-found, and
\* neither is reported as the generic request-failed outcome that a connection
\* error gets.  Violated by builtwith_excel, whose get_builtwith_data has one
\* handler: 401, 404, timeout and connection error are all reported as
\* "BuiltWith API request failed: ...".
C14_DistinctOutcomes ==
    Exited =>
        /\ Answered(401) => ReportedAs("Authentication failed")
        /\ Answered(404) => ReportedAs("not found")

\* an exporting entry point ran the extractor on the document {"foo": "bar"}
ExportedUnrecognized ==
    /\ Exited
    /\ entry \in {"builtwith_excel", "main"}
    /\ builtwith_data = JDict(<< <<"foo", JStr("bar")>> >>)
    /\ technology_data # NotRun

\* C15: for a document with no recognizable technology structure, in every
\* entry point that exports a spreadsheet, the extractor returns an empty
\* sequence, the run ends with status 0, a warning about the missing technology
\* data is printed, and the spreadsheet is written with the sheet 'Technology
\* Stack' holding the eight-column header and no data row.  Violated by
\* main.py: it prints no such warning, and when the analysis succeeded the
\* sheet also holds the separator row and the analysis rows.
C15_EmptyExport ==
    ExportedUnrecognized =>
        /\ technology_data = Ok(<<>>)
        /\ exit_status = JInt(0)
        /\ \E i \in DOMAIN report :
              /\ report[i].to = "stderr"
              /\ IsSubstring("Warning", report[i].text)
              /\ IsSubstring("technology data", report[i].text)
        /\ workbook # <<>>
        /\ workbook[1].name = "Technology Stack"
        /\ workbook[1].header = required_columns
        /\ workbook[1].rows = <<>>

\* the kinds of the events made so far, in order
Events == [i \in DOMAIN trace |-> trace[i].event]

\* C20: in main.py the steps happen in a fixed order and no step follows a
\* terminal failure: no request is made when the domain is blank; the chat
\* request is made only after the profiling request succeeded; the spreadsheet
\* is written only after the profiling request succeeded and the analysis
\* finished, with its text or without; a run whose profiling request failed
\* makes no chat request and writes no file; and an invocation that has ended
\* does nothing more.
C20_FixedOrder ==
    entry = "main" =>
        /\ Events \in {<<>>, <<"profile-request">>, <<"profile-request", "chat-request">>,
                       <<"profile-request", "chat-request", "file-write">>}
        /\ BlankDomain => trace = <<>>
        /\ Len(trace) >= 2 => (trace[1].outcome.kind = "ok" /\ builtwith_data = trace[1].outcome.body)
        /\ Len(trace) = 3 =>
              /\ chunks = <<>> /\ pc = "exit"
              /\ llm_analysis = (IF AnalysisFailed THEN JNull ELSE JStr(Content(ChatReply.chunks)))
        /\ workbook # <<>> <=> Len(trace) = 3
        /\ ProfileFailed => (Events = <<"profile-request">> /\ workbook = <<>> /\ Exited)
        /\ (Exited /\ exit_status # JInt(0)) => workbook = <<>>
        /\ Exited <=> exit_status # JNull

\* main.py made the profiling request, streamed the analysis and wrote the file
C20_Witness ==
    /\ entry = "main" /\ Exited /\ args.stream
    /\ Events = <<"profile-request", "chat-request", "file-write">>
    /\ workbook # <<>> /\ Truthy(llm_analysis)
    /\ exit_status = JInt(0)

====
